---- MODULE Spec2Model ----
(***************************************************************************)
(* A model of the N-body RK4 engine of src/physics.js (class NBodyRK4,     *)
(* physicalRadiusAU, detectCollision, detectEscape) and of the callers in  *)
(* src/app.js.                                                             *)
(*                                                                         *)
(* Numbers.  A JavaScript Number is an IEEE-754 binary64 value.  The model *)
(* keeps the semantics of that arithmetic (every operation returns the     *)
(* exact result rounded to nearest, ties to even; division by zero gives   *)
(* an infinity; invalid operations give NaN) and scales the significand    *)
(* down from 53 bits to Prec bits.  The exponent is unbounded and the two  *)
(* zeros are one value.  A finite value is m * 2^e with m odd (or m = 0).  *)
(***************************************************************************)
EXTENDS Integers, Sequences, FiniteSets, TLC

\* Significand width of the model's floating-point numbers (binary64: 53).
Prec == 8

----------------------------------------------------------------------------
\* Floating-point values

Zero == [k |-> "fin", m |-> 0, e |-> 0]
NaN == [k |-> "nan", m |-> 0, e |-> 0]
PInf == [k |-> "inf", m |-> 1, e |-> 0]
NInf == [k |-> "inf", m |-> -1, e |-> 0]
\* a property that is absent from an options object
Undefined == [k |-> "undef", m |-> 0, e |-> 0]

Abs(i) == IF i < 0 THEN -i ELSE i
Sgn(i) == IF i < 0 THEN -1 ELSE IF i > 0 THEN 1 ELSE 0
Max(i, j) == IF i < j THEN j ELSE i

RECURSIVE BitLen(_)
BitLen(a) == IF a = 0 THEN 0 ELSE 1 + BitLen(a \div 2)

RECURSIVE TrailZ(_)
TrailZ(a) == IF a % 2 = 1 THEN 0 ELSE 1 + TrailZ(a \div 2)

\* q + r/d (0 <= r < d) rounded to the nearest integer, ties to even
NearestEven(q, r, d) ==
  IF 2 * r > d \/ (2 * r = d /\ q % 2 = 1) THEN q + 1 ELSE q

\* a / 2^sh rounded to the nearest integer, ties to even
ShiftRound(a, sh) ==
  IF sh = 0 THEN a ELSE NearestEven(a \div (2 ^ sh), a % (2 ^ sh), 2 ^ sh)

\* s * q * 2^e with the trailing zero bits tz of q moved into the exponent
Canonical(s, q, e, tz) ==
  [k |-> "fin", m |-> s * (q \div (2 ^ tz)), e |-> e + tz]

\* s * a * 2^e with the last sh bits of a rounded away
RoundAt(s, a, e, sh) ==
  Canonical(s, ShiftRound(a, sh), e + sh, TrailZ(ShiftRound(a, sh)))

\* s * a * 2^e (s = 1 or -1, a >= 0) rounded to Prec bits, nearest, ties to even
Round(s, a, e) ==
  IF a = 0 THEN Zero ELSE RoundAt(s, a, e, Max(0, BitLen(a) - Prec))

\* The value m * 2^e as a number of the model
Fl(m, e) == Round(Sgn(m), Abs(m), e)

IsNaN(x) == x.k = "nan"
IsFinite(x) == x.k = "fin"
IsZero(x) == x.k = "fin" /\ x.m = 0
\* position of the bit above the leading bit of a finite non-zero value
Top(x) == x.e + BitLen(Abs(x.m))
\* sign of a product or quotient
SignOf(x, y) == IF Sgn(x.m) * Sgn(y.m) < 0 THEN -1 ELSE 1

FNeg(x) == IF x.k = "nan" THEN x ELSE [x EXCEPT !.m = -x.m]
FAbs(x) == IF x.k = "nan" THEN x ELSE [x EXCEPT !.m = Abs(x.m)]

FMul(x, y) ==
  IF IsNaN(x) \/ IsNaN(y) THEN NaN
  ELSE IF x.k = "inf" \/ y.k = "inf"
       THEN IF x.m = 0 \/ y.m = 0 THEN NaN
            ELSE IF SignOf(x, y) > 0 THEN PInf ELSE NInf
  ELSE Round(SignOf(x, y), Abs(x.m) * Abs(y.m), x.e + y.e)

\* the integer sum * 2^e, rounded
RoundInt(sum, e) == Round(IF sum < 0 THEN -1 ELSE 1, Abs(sum), e)

\* hi + lo for finite non-zero values, hi.e >= lo.e.  When lo lies below a
\* quarter of hi's last place only its sign matters to the rounding.
AddAligned(hi, lo) ==
  IF Top(hi) - Top(lo) > Prec + 2
  THEN RoundInt(hi.m * (2 ^ (Prec + 3 - BitLen(Abs(hi.m)))) + Sgn(lo.m),
                hi.e - (Prec + 3 - BitLen(Abs(hi.m))))
  ELSE RoundInt(hi.m * (2 ^ (hi.e - lo.e)) + lo.m, lo.e)

FAdd(x, y) ==
  IF IsNaN(x) \/ IsNaN(y) THEN NaN
  ELSE IF x.k = "inf" /\ y.k = "inf" THEN (IF x.m = y.m THEN x ELSE NaN)
  ELSE IF x.k = "inf" THEN x
  ELSE IF y.k = "inf" THEN y
  ELSE IF x.m = 0 THEN y
  ELSE IF y.m = 0 THEN x
  ELSE IF x.e >= y.e THEN AddAligned(x, y) ELSE AddAligned(y, x)

FSub(x, y) == FAdd(x, FNeg(y))

\* s * (num / den) * 2^e rounded; num / den has at least Prec + 2 bits
DivRound(s, num, den, e) ==
  Round(s, 2 * (num \div den) + (IF num % den = 0 THEN 0 ELSE 1), e - 1)

\* x / y for finite non-zero values, the dividend shifted left by t bits
DivShifted(x, y, t) ==
  DivRound(SignOf(x, y), Abs(x.m) * (2 ^ t), Abs(y.m), x.e - y.e - t)

FDiv(x, y) ==
  IF IsNaN(x) \/ IsNaN(y) THEN NaN
  ELSE IF x.k = "inf"
       THEN IF y.k = "inf" THEN NaN
            ELSE IF x.m * (IF y.m < 0 THEN -1 ELSE 1) > 0 THEN PInf ELSE NInf
  ELSE IF y.k = "inf" THEN Zero
  ELSE IF y.m = 0
       THEN IF x.m = 0 THEN NaN ELSE IF x.m > 0 THEN PInf ELSE NInf
  ELSE IF x.m = 0 THEN Zero
  ELSE DivShifted(x, y,
                  Max(0, Prec + 2 + BitLen(Abs(y.m)) - BitLen(Abs(x.m))))

RECURSIVE ISqrtFrom(_, _, _)
ISqrtFrom(n, b, r) ==
  IF b = 0 THEN r
  ELSE IF (r + b) * (r + b) <= n THEN ISqrtFrom(n, b \div 2, r + b)
       ELSE ISqrtFrom(n, b \div 2, r)

\* floor of the square root of n, 0 <= n < 2^30
ISqrt(n) == ISqrtFrom(n, 2 ^ 14, 0)

\* sqrt(n) * 2^e rounded, s = ISqrt(n)
SqrtRound(n, s, e) == Round(1, 2 * s + (IF s * s = n THEN 0 ELSE 1), e - 1)

\* sqrt(m * 2^e), m shifted left by t bits, e - t even
SqrtShifted(m, e, t) ==
  SqrtRound(m * (2 ^ t), ISqrt(m * (2 ^ t)), (e - t) \div 2)

\* the shift t0 or t0 + 1 that leaves e - t even
EvenShift(e, t0) == IF (e - t0) % 2 = 0 THEN t0 ELSE t0 + 1

FSqrt(x) ==
  IF IsNaN(x) THEN NaN
  ELSE IF x.m < 0 THEN NaN
  ELSE IF x.k = "inf" THEN PInf
  ELSE IF x.m = 0 THEN Zero
  ELSE SqrtShifted(x.m, x.e,
                   EvenShift(x.e, Max(0, 2 * Prec + 3 - BitLen(x.m))))

\* x < y, x <= y, x >= y as JavaScript compares Numbers (false on NaN)
FLt(x, y) ==
  /\ ~IsNaN(x) /\ ~IsNaN(y)
  /\ x # y
  /\ IF x.k = "inf" THEN x.m < 0
     ELSE IF y.k = "inf" THEN y.m > 0
     ELSE FSub(x, y).m < 0
FLe(x, y) == ~IsNaN(x) /\ ~IsNaN(y) /\ (x = y \/ FLt(x, y))
FGe(x, y) == FLe(y, x)

----------------------------------------------------------------------------
\* Number literals of the source

One == Fl(1, 0)
Two == Fl(1, 1)
Six == Fl(3, 1)
Half == Fl(1, -1)
OneAndHalf == Fl(3, -1)
\* G = 2.959122082855911e-4
G == Fl(1241, -22)

\* Math.max(x, y)
FMax(x, y) == IF IsNaN(x) \/ IsNaN(y) THEN NaN ELSE IF FLt(x, y) THEN y ELSE x

\* Math.hypot scales by the largest magnitude before squaring, so a vector
\* along one axis has exactly the length of its component
HypotMax(v) == FMax(FMax(FAbs(v[1]), FAbs(v[2])), FAbs(v[3]))

HypotSquare(x, mx) == FMul(FDiv(x, mx), FDiv(x, mx))

HypotScaled(v, mx) ==
  IF IsNaN(mx) THEN NaN
  ELSE IF IsZero(mx) THEN Zero
  ELSE FMul(FSqrt(FAdd(FAdd(HypotSquare(v[1], mx), HypotSquare(v[2], mx)),
                       HypotSquare(v[3], mx))),
            mx)

\* Math.hypot(v[1], v[2], v[3]): infinite when a component is, even beside NaN
Hypot3(v) ==
  IF v[1].k = "inf" \/ v[2].k = "inf" \/ v[3].k = "inf" THEN PInf
  ELSE HypotScaled(v, HypotMax(v))

\* Math.pow(x, y), y finite and positive, is 2^(y * log2(x)), computed in
\* fixed point with PowBits fraction bits.
PowBits == 14
PowOne == 2 ^ PowBits

\* the fraction bits of log2(f / PowOne), PowOne <= f < 2 * PowOne: square,
\* and halve when the square reaches 2
RECURSIVE LogBits(_, _, _)
LogBits(f, i, acc) ==
  IF i = 0 THEN acc
  ELSE IF (f * f) \div PowOne >= 2 * PowOne
       THEN LogBits((f * f) \div (2 * PowOne), i - 1, 2 * acc + 1)
       ELSE LogBits((f * f) \div PowOne, i - 1, 2 * acc)

\* log2(m * 2^e) * PowOne for m > 0 with nb bits
Log2Fixed(m, e, nb) ==
  (e + nb - 1) * PowOne + LogBits(m * (2 ^ (PowBits - (nb - 1))), PowBits, 0)

\* 2^(2^-i) * PowOne, i = 1 .. PowBits
ExpTable ==
  <<23170, 19484, 17867, 17109, 16743, 16562, 16473, 16428, 16406, 16395,
    16390, 16387, 16385, 16385>>

\* 2^(F / PowOne) * PowOne, 0 <= F < PowOne: the product of the table
\* entries of the bits set in F
RECURSIVE ExpBits(_, _, _)
ExpBits(F, i, P) ==
  IF i > PowBits THEN P
  ELSE IF (F \div (2 ^ (PowBits - i))) % 2 = 1
       THEN ExpBits(F, i + 1, (P * ExpTable[i]) \div PowOne)
       ELSE ExpBits(F, i + 1, P)

\* 2^(T / PowOne)
Exp2Fixed(T) == Round(1, ExpBits(T % PowOne, 1, PowOne), (T \div PowOne) - PowBits)

\* y * L for y = m * 2^e, in fixed point
ScaleFixed(L, m, e) == IF e >= 0 THEN L * m * (2 ^ e) ELSE (L * m) \div (2 ^ (-e))

Pow(x, y) ==
  IF IsNaN(x) \/ x.m < 0 THEN NaN
  ELSE IF x.k = "inf" THEN PInf
  ELSE IF x.m = 0 THEN Zero
  ELSE Exp2Fixed(ScaleFixed(Log2Fixed(x.m, x.e, BitLen(x.m)), y.m, y.e))

----------------------------------------------------------------------------
\* The heap: every array (Float64Array or Array of Numbers) lives at an
\* address; a variable or a field holds the address.  Slots are numbered
\* from 0 as in the source.

NewAddr(h) ==
  CHOOSE a \in 1..(Cardinality(DOMAIN h) + 1) :
    a \notin DOMAIN h /\ \A b \in 1..(a - 1) : b \in DOMAIN h

Zeros(n) == [i \in 1..n |-> Zero]

\* a[i]; reading past the end gives undefined, NaN in arithmetic
Rd(h, a, i) == IF i >= 0 /\ i < Len(h[a]) THEN h[a][i + 1] ELSE NaN

\* <<a[o], a[o+1], a[o+2]>>
Rd3(h, a, o) == <<Rd(h, a, o), Rd(h, a, o + 1), Rd(h, a, o + 2)>>

\* a[i] = v on a typed array; a write past the end is ignored
Wr(h, a, i, v) ==
  IF i >= 0 /\ i < Len(h[a]) THEN [h EXCEPT ![a][i + 1] = v] ELSE h

\* a[o] = v[1]; a[o+1] = v[2]; a[o+2] = v[3]
Wr3(h, a, o, v) == Wr(Wr(Wr(h, a, o, v[1]), a, o + 1, v[2]), a, o + 2, v[3])

\* A running call: the heap, and the arrays the call has created so far, in
\* the order of their creation (its local variables).
Frame(h) == [h |-> h, loc |-> <<>>]

\* new Float64Array(n), new Array(n), an array literal: a fresh address
New(f, buf) ==
  [h |-> (NewAddr(f.h) :> buf) @@ f.h, loc |-> Append(f.loc, NewAddr(f.h))]

\* the call goes on with heap h
On(f, h) == [f EXCEPT !.h = h]

\* the array the call created last
Last(f) == f.loc[Len(f.loc)]

\* The loops below stop at once on a buffer that is not on the heap (it has
\* no slots).

----------------------------------------------------------------------------
\* class NBodyRK4

NoEngine == [live |-> FALSE, n |-> 0, m |-> 0, state |-> 0, soft2 |-> Zero]

\* a state buffer without the velocity block
StateLenHalf(n) == 3 * n

\* length of the state buffer
StateLen(n) == 6 * n

\* the constructor's loop body for body i: position p, velocity v
CtorBody(h, st, n, i, p, v) == Wr3(Wr3(h, st, 3 * i, p), st, 3 * n + 3 * i, v)

\* the constructor's loop
RECURSIVE CtorFill(_, _, _, _, _, _)
CtorFill(h, st, n, pos, vel, i) ==
  IF i >= n \/ st \notin DOMAIN h THEN h
  ELSE CtorFill(CtorBody(h, st, n, i, pos[i + 1], vel[i + 1]),
                st, n, pos, vel, i + 1)

\* pos[i] or vel[i] is undefined for some i < n: reading [0] of it throws
CtorThrows(masses, pos, vel) ==
  \E i \in 1..Len(masses) : i > Len(pos) \/ i > Len(vel)

\* the constructed object; f.loc = <<this.m, this.state>>
CtorObject(f, n, pos, vel, softening) ==
  [ok |-> TRUE,
   h |-> CtorFill(f.h, f.loc[2], n, pos, vel, 0),
   eng |-> [live |-> TRUE, n |-> n, m |-> f.loc[1], state |-> f.loc[2],
            soft2 |-> FMul(softening, softening)]]

\* new NBodyRK4(masses, pos, vel, softening): [ok, h, eng]
Constructor(h, masses, pos, vel, softening) ==
  IF CtorThrows(masses, pos, vel)
  THEN [ok |-> FALSE, h |-> h, eng |-> NoEngine]
  ELSE CtorObject(New(New(Frame(h), masses), Zeros(StateLen(Len(masses)))),
                  Len(masses), pos, vel, softening)

\* deriv, first loop: out[i] = s[3n + i]
RECURSIVE DerivCopy(_, _, _, _, _)
DerivCopy(h, out, s, n, i) ==
  IF i >= 3 * n \/ out \notin DOMAIN h THEN h
  ELSE DerivCopy(Wr(h, out, i, Rd(h, s, 3 * n + i)), out, s, n, i + 1)

\* r2 = dx*dx + dy*dy + dz*dz + this.soft2
R2(d, soft2) ==
  FAdd(FAdd(FAdd(FMul(d[1], d[1]), FMul(d[2], d[2])), FMul(d[3], d[3])),
       soft2)

\* the force factor with the wrong sign
ForceFactorRepel(mj, r2) ==
  FMul(FMul(G, mj), FDiv(One, Pow(r2, OneAndHalf)))

\* invR3 = 1.0 / Math.pow(r2, 1.5); f = -G * this.m[j] * invR3
ForceFactor(mj, r2) ==
  FMul(FMul(FNeg(G), mj), FDiv(One, Pow(r2, OneAndHalf)))

\* ax += f * dx; ay += f * dy; az += f * dz
AddScaled(acc, f, d) ==
  <<FAdd(acc[1], FMul(f, d[1])), FAdd(acc[2], FMul(f, d[2])),
    FAdd(acc[3], FMul(f, d[3]))>>

\* xi - xj, yi - yj, zi - zj
Sub3(p, q) == <<FSub(p[1], q[1]), FSub(p[2], q[2]), FSub(p[3], q[3])>>

\* the force factor takes the mass of the body itself
PairMassOwn(i, j) == i

\* the body whose mass enters the force factor of the pair (i, j)
PairMass(i, j) == j

\* the inner loop's body for j # i, d the separation
PairTerm(acc, d, mj, soft2) == AddScaled(acc, ForceFactor(mj, R2(d, soft2)), d)

\* deriv, inner loop over j: <<ax, ay, az>>
RECURSIVE DerivAccum(_, _, _, _, _, _)
DerivAccum(h, eng, s, i, j, acc) ==
  IF j >= eng.n THEN acc
  ELSE IF j = i THEN DerivAccum(h, eng, s, i, j + 1, acc)
  ELSE DerivAccum(h, eng, s, i, j + 1,
                  PairTerm(acc, Sub3(Rd3(h, s, 3 * i), Rd3(h, s, 3 * j)),
                           Rd(h, eng.m, PairMass(i, j)), eng.soft2))

\* deriv, outer loop over i: out[3n + 3i + a] = acceleration of body i
RECURSIVE DerivAccel(_, _, _, _, _)
DerivAccel(h, eng, out, s, i) ==
  IF i >= eng.n \/ out \notin DOMAIN h THEN h
  ELSE DerivAccel(Wr3(h, out, 3 * eng.n + 3 * i,
                      DerivAccum(h, eng, s, i, 0, <<Zero, Zero, Zero>>)),
                  eng, out, s, i + 1)

\* deriv(out, s): the heap after the call
Deriv(h, eng, out, s) ==
  DerivAccel(DerivCopy(h, out, s, eng.n, 0), eng, out, s, 0)

\* for (i < n6) dst[i] = s[i] + c * k[i]
RECURSIVE Axpy(_, _, _, _, _, _, _)
Axpy(h, dst, s, c, k, n6, i) ==
  IF i >= n6 \/ dst \notin DOMAIN h THEN h
  ELSE Axpy(Wr(h, dst, i, FAdd(Rd(h, s, i), FMul(c, Rd(h, k, i)))),
            dst, s, c, k, n6, i + 1)

\* for (i < n6) s[i] += (dt/6) * (k1[i] + 2*k2[i] + 2*k3[i] + k4[i])
RECURSIVE StepUpdate(_, _, _, _, _, _)
StepUpdate(h, s, dt, k, n6, i) ==
  IF i >= n6 \/ s \notin DOMAIN h THEN h
  ELSE StepUpdate(
         Wr(h, s, i,
            FAdd(Rd(h, s, i),
                 FMul(FDiv(dt, Six),
                      FAdd(FAdd(FAdd(Rd(h, k[1], i),
                                     FMul(Two, Rd(h, k[2], i))),
                                FMul(Two, Rd(h, k[3], i))),
                           Rd(h, k[4], i))))),
         s, dt, k, n6, i + 1)

\* const k1 = new Float64Array(n6), k2 = ..., k3 = ..., k4 = ...
StepBuffers(h, n6) ==
  New(New(New(New(Frame(h), Zeros(n6)), Zeros(n6)), Zeros(n6)), Zeros(n6))

\* this.deriv(k1, s)
StepFirst(f, eng) == On(f, Deriv(f.h, eng, f.loc[1], eng.state))

\* s2, s3 and s4 built in the state buffer itself
StepScratchInPlace(f, s, n6) == [f EXCEPT !.loc = Append(@, s)]

\* const s2 = new Float64Array(n6) (and s3, s4)
StepScratch(f, s, n6) == New(f, Zeros(n6))

\* for (i < n6) sN[i] = s[i] + c * kin[i], sN the array created last
StepFill(f, s, c, kin, n6) ==
  On(f, Axpy(f.h, Last(f), s, c, f.loc[kin], n6, 0))

\* this.deriv(kout, sN)
StepDeriv(f, eng, kout) == On(f, Deriv(f.h, eng, f.loc[kout], Last(f)))

\* one of the stages 2 to 4: a new sN, filled, and its derivative
StepStage(f, eng, c, kin, kout) ==
  StepDeriv(StepFill(StepScratch(f, eng.state, StateLen(eng.n)),
                     eng.state, c, kin, StateLen(eng.n)),
            eng, kout)

\* the last loop of step
StepFinish(f, eng, dt) ==
  StepUpdate(f.h, eng.state, dt, f.loc, StateLen(eng.n), 0)

\* step(dt): the heap after the call
Step(h, eng, dt) ==
  StepFinish(
    StepStage(
      StepStage(
        StepStage(StepFirst(StepBuffers(h, StateLen(eng.n)), eng),
                  eng, FMul(Half, dt), 1, 2),
        eng, FMul(Half, dt), 2, 3),
      eng, dt, 3, 4),
    eng, dt)

\* 0.5 * m[i] * (vx*vx + vy*vy + vz*vz)
KineticTerm(m, v) ==
  FMul(FMul(Half, m),
       FAdd(FAdd(FMul(v[1], v[1]), FMul(v[2], v[2])), FMul(v[3], v[3])))

\* energy(), kinetic loop
RECURSIVE EnergyK(_, _, _, _)
EnergyK(h, eng, i, K) ==
  IF i >= eng.n THEN K
  ELSE EnergyK(h, eng, i + 1,
               FAdd(K, KineticTerm(Rd(h, eng.m, i),
                                   Rd3(h, eng.state, 3 * eng.n + 3 * i))))

\* -G * m[i] * m[j] / r, r = Math.sqrt(dx*dx + dy*dy + dz*dz + this.soft2)
PotentialTerm(mi, mj, d, soft2) ==
  FDiv(FMul(FMul(FNeg(G), mi), mj), FSqrt(R2(d, soft2)))

\* the inner potential loop from j = 0
EnergyFirstJZero(i) == 0

\* first j of the inner potential loop for a given i
EnergyFirstJ(i) == i + 1

\* energy(), potential loops: for i, for j = i+1 .. n-1
RECURSIVE EnergyPairs(_, _, _, _, _)
EnergyPairs(h, eng, i, j, U) ==
  IF i >= eng.n THEN U
  ELSE IF j >= eng.n THEN EnergyPairs(h, eng, i + 1, EnergyFirstJ(i + 1), U)
  ELSE EnergyPairs(h, eng, i, j + 1,
                   FAdd(U, PotentialTerm(
                             Rd(h, eng.m, i), Rd(h, eng.m, j),
                             Sub3(Rd3(h, eng.state, 3 * i),
                                  Rd3(h, eng.state, 3 * j)),
                             eng.soft2)))

\* energy(): [h, ret]
Energy(h, eng) ==
  [h |-> h,
   ret |-> FAdd(EnergyK(h, eng, 0, Zero),
                EnergyPairs(h, eng, 0, EnergyFirstJ(0), Zero))]

\* a reference to 3 consecutive slots: a 3-element array, or a view
Ref(buf, off) == [buf |-> buf, off |-> off]

\* the array literal just created, as an entry of out
EntryOf(f) == [h |-> f.h, ref |-> Ref(Last(f), 0)]

\* an entry that is a view of the state buffer
PositionView(h, eng, i) == [h |-> h, ref |-> Ref(eng.state, 3 * i)]

\* getPositions(), one entry: [s[3i], s[3i+1], s[3i+2]], a new array
PositionEntry(h, eng, i) == EntryOf(New(Frame(h), Rd3(h, eng.state, 3 * i)))

RECURSIVE GetPositionsFrom(_, _, _, _)
RECURSIVE GetPositionsPut(_, _, _, _)
\* getPositions(), the loop
GetPositionsFrom(h, eng, i, out) ==
  IF i >= eng.n \/ eng.state \notin DOMAIN h THEN [h |-> h, ret |-> out]
  ELSE GetPositionsPut(PositionEntry(h, eng, i), eng, i, out)

\* out[i] = the entry p
GetPositionsPut(p, eng, i, out) ==
  GetPositionsFrom(p.h, eng, i + 1, Append(out, p.ref))

\* getPositions(): [h, ret], ret the sequence of the entries' references
GetPositions(h, eng) == GetPositionsFrom(h, eng, 0, <<>>)

----------------------------------------------------------------------------
\* physicalRadiusAU

R_SUN_AU == Fl(1219, -18)
M_JUP_MSUN == Fl(1001, -20)
R_JUP_AU == FMul(R_SUN_AU, Fl(823, -13))
M_EARTH_MSUN == Fl(403, -27)
R_EARTH_AU == FDiv(R_SUN_AU, Fl(109, 0))

\* if (!Number.isFinite(m) || m <= 0) m = M_EARTH_MSUN
\* the mass used as given
CoerceMassNone(m) == m

CoerceMass(m) == IF ~IsFinite(m) \/ FLe(m, Zero) THEN M_EARTH_MSUN ELSE m

\* the four branches, exponents 0.8, 0.03 and 0.27
RadiusOf(m) ==
  IF FGe(m, Fl(819, -13)) THEN FMul(R_SUN_AU, Pow(m, Fl(819, -10)))
  ELSE IF FGe(m, M_JUP_MSUN)
       THEN FMul(R_JUP_AU, Pow(FDiv(m, M_JUP_MSUN), Fl(983, -15)))
  ELSE IF FGe(m, M_EARTH_MSUN)
       THEN FMul(R_EARTH_AU, Pow(FDiv(m, M_EARTH_MSUN), Fl(553, -11)))
  ELSE FMul(R_EARTH_AU, Half)

PhysicalRadiusAU(m) == RadiusOf(CoerceMass(m))

----------------------------------------------------------------------------
\* detectCollision({engine, masses, opts}); an option left out is NaN here
\* (undefined is not finite)

Null == [tag |-> "null"]

\* the radii written into the state buffer
RadiiInState(f, s, n) == [f EXCEPT !.loc = Append(@, s)]

\* const r = new Float64Array(n)
RadiiBuffer(f, s, n) == New(f, Zeros(n))

\* fudge as the caller gave it
CollisionFudgeAsGiven(opts) == opts.fudge

\* fudge = Number.isFinite(opts.fudge) ? opts.fudge : 1.2
CollisionFudge(opts) == IF IsFinite(opts.fudge) THEN opts.fudge ELSE Fl(1229, -10)

\* dt as the caller gave it
CollisionDtAsGiven(opts) == opts.dt

\* dt = Number.isFinite(opts.dt) ? opts.dt : 0
CollisionDt(opts) == IF IsFinite(opts.dt) THEN opts.dt ELSE Zero

\* 'vdt': r[i] = v * dt * fudge
RECURSIVE VdtRadii(_, _, _, _, _, _, _)
VdtRadii(h, r, s, n, dt, fudge, i) ==
  IF i >= n \/ r \notin DOMAIN h THEN h
  ELSE VdtRadii(Wr(h, r, i,
                   FMul(FMul(Hypot3(Rd3(h, s, 3 * n + 3 * i)), dt), fudge)),
                r, s, n, dt, fudge, i + 1)

\* 'core': r[i] = physicalRadiusAU(masses[i]) * fudge
RECURSIVE CoreRadii(_, _, _, _, _)
CoreRadii(h, r, masses, fudge, i) ==
  IF i >= Len(masses) \/ r \notin DOMAIN h THEN h
  ELSE CoreRadii(Wr(h, r, i, FMul(PhysicalRadiusAU(masses[i + 1]), fudge)),
                 r, masses, fudge, i + 1)

\* the radii loops; r is the array created last
CollisionRadii(f, eng, masses, opts) ==
  On(f, IF opts.mode = "vdt"
        THEN VdtRadii(f.h, Last(f), eng.state, Len(masses),
                      CollisionDt(opts), CollisionFudge(opts), 0)
        ELSE CoreRadii(f.h, Last(f), masses, CollisionFudge(opts), 0))

RECURSIVE PairScan(_, _, _, _, _, _)
RECURSIVE PairCheck(_, _, _, _, _, _, _, _)
\* a hit that is kept while the scan goes on: the last pair in reach
LaterPair(pair, rest) == IF rest = Null THEN pair ELSE rest

PairCheckLast(h, s, r, n, i, j, sep, minSep) ==
  IF FLt(sep, minSep)
  THEN LaterPair([tag |-> "pair", i |-> i, j |-> j, sep |-> sep,
                  minSep |-> minSep],
                 PairScan(h, s, r, n, i, j + 1))
  ELSE PairScan(h, s, r, n, i, j + 1)

\* a collision signalled by throw instead of a return value
PairCheckThrows(h, s, r, n, i, j, sep, minSep) ==
  IF FLt(sep, minSep)
  THEN [tag |-> "throw", i |-> i, j |-> j]
  ELSE PairScan(h, s, r, n, i, j + 1)

\* the test written sep <= minSep
PairCheckInclusive(h, s, r, n, i, j, sep, minSep) ==
  IF FLe(sep, minSep)
  THEN [tag |-> "pair", i |-> i, j |-> j, sep |-> sep, minSep |-> minSep]
  ELSE PairScan(h, s, r, n, i, j + 1)

\* the pairwise loops: for i, for j = i+1 .. n-1
PairScan(h, s, r, n, i, j) ==
  IF i >= n THEN Null
  ELSE IF j >= n THEN PairScan(h, s, r, n, i + 1, i + 2)
  ELSE PairCheck(h, s, r, n, i, j,
                 Hypot3(Sub3(Rd3(h, s, 3 * i), Rd3(h, s, 3 * j))),
                 FAdd(Rd(h, r, i), Rd(h, r, j)))

\* if (sep < minSep) return { i, j, sep, minSep }
PairCheck(h, s, r, n, i, j, sep, minSep) ==
  IF FLt(sep, minSep)
  THEN [tag |-> "pair", i |-> i, j |-> j, sep |-> sep, minSep |-> minSep]
  ELSE PairScan(h, s, r, n, i, j + 1)

\* the scan over the finished radii
CollisionScan(f, eng, n) ==
  [h |-> f.h, ret |-> PairScan(f.h, eng.state, Last(f), n, 0, 1),
   r |-> f.h[Last(f)]]

\* detectCollision: [h, ret]
DetectCollision(h, eng, masses, opts) ==
  CollisionScan(CollisionRadii(RadiiBuffer(Frame(h), eng.state, Len(masses)),
                               eng, masses, opts),
                eng, Len(masses))

----------------------------------------------------------------------------
\* detectEscape({engine, masses, maxSepAU, fudge})

G_AU3_MSUN_DAY2 == Fl(1241, -22)

\* Math.max(rCM, 1e-16) guards the division
TinyR == Fl(1845, -64)

\* M += m; cmx += m * x; cmy += m * y; cmz += m * z
AddOther(acc, m, p) ==
  <<FAdd(acc[1], m), FAdd(acc[2], FMul(m, p[1])), FAdd(acc[3], FMul(m, p[2])),
    FAdd(acc[4], FMul(m, p[3]))>>

\* the loop over the bodies other than k: <<M, cmx, cmy, cmz>>
RECURSIVE OthersSum(_, _, _, _, _, _)
OthersSum(h, s, masses, k, i, acc) ==
  IF i >= Len(masses) THEN acc
  ELSE IF i = k THEN OthersSum(h, s, masses, k, i + 1, acc)
  ELSE OthersSum(h, s, masses, k, i + 1,
                 AddOther(acc, masses[i + 1], Rd3(h, s, 3 * i)))

\* cmx /= M; cmy /= M; cmz /= M
CentreOf(acc) ==
  <<FDiv(acc[2], acc[1]), FDiv(acc[3], acc[1]), FDiv(acc[4], acc[1])>>

\* vEsc = Math.sqrt(2 * G * M / Math.max(rCM, 1e-16)) * fudge
EscapeSpeed(M, rCM, fudge) ==
  FMul(FSqrt(FDiv(FMul(FMul(Two, G_AU3_MSUN_DAY2), M), FMax(rCM, TinyR))),
       fudge)

\* if (v >= vEsc) return { index, v, vEsc, rCM, Mother }
EscapeTest(k, M, rCM, v, vEsc) ==
  IF FGe(v, vEsc)
  THEN [tag |-> "escape", index |-> k, v |-> v, vEsc |-> vEsc, rCM |-> rCM,
        Mother |-> M]
  ELSE Null

\* the test of a body made whatever its distance
EscapeFarUnchecked(k, M, rCM, v, maxSepAU, fudge) ==
  EscapeTest(k, M, rCM, v, EscapeSpeed(M, rCM, fudge))

\* if (rCM < maxSepAU) continue
EscapeFar(k, M, rCM, v, maxSepAU, fudge) ==
  IF FLt(rCM, maxSepAU) THEN Null
  ELSE EscapeTest(k, M, rCM, v, EscapeSpeed(M, rCM, fudge))

\* if (M <= 0) continue; p and v the position and velocity of body k
EscapeOf(k, acc, p, v, maxSepAU, fudge) ==
  IF FLe(acc[1], Zero) THEN Null
  ELSE EscapeFar(k, acc[1], Hypot3(Sub3(p, CentreOf(acc))), Hypot3(v),
                 maxSepAU, fudge)

\* one pass of the loop over k: Null when the pass ends in continue
EscapeAt(h, s, masses, k, maxSepAU, fudge) ==
  EscapeOf(k, OthersSum(h, s, masses, k, 0, <<Zero, Zero, Zero, Zero>>),
           Rd3(h, s, 3 * k), Rd3(h, s, 3 * Len(masses) + 3 * k),
           maxSepAU, fudge)

RECURSIVE EscapeScan(_, _, _, _, _, _)
RECURSIVE EscapeNext(_, _, _, _, _, _, _)
\* the loop over k
EscapeScan(h, s, masses, k, maxSepAU, fudge) ==
  IF k >= Len(masses) THEN Null
  ELSE EscapeNext(EscapeAt(h, s, masses, k, maxSepAU, fudge),
                  h, s, masses, k, maxSepAU, fudge)

EscapeNext(res, h, s, masses, k, maxSepAU, fudge) ==
  IF res # Null THEN res ELSE EscapeScan(h, s, masses, k + 1, maxSepAU, fudge)

\* detectEscape: [h, ret]
DetectEscape(h, eng, masses, maxSepAU, fudge) ==
  [h |-> h, ret |-> EscapeScan(h, eng.state, masses, 0, maxSepAU, fudge)]

----------------------------------------------------------------------------
\* Bounds and inputs of the model

\* step calls per engine
MaxSteps == 2
\* writes a caller makes into one snapshot
MaxWrites == 1

Vec(x, y, z) == <<x, y, z>>

\* two equal masses, softening 1e-6
ArgsPairEqual ==
  [masses |-> <<One, One>>,
   pos |-> <<Vec(Fl(-5, -2), Fl(1, -1), Fl(1, -2)),
             Vec(Fl(3, -2), Fl(-1, -1), Zero)>>,
   vel |-> <<Vec(Zero, Fl(1, -6), Fl(1, -8)),
             Vec(Fl(1, -7), Fl(-1, -6), Zero)>>,
   softening |-> Fl(537, -29)]

\* masses 1.10 and 0.75, softening 0.5
ArgsPairUnequal ==
  [masses |-> <<Fl(141, -7), Fl(3, -2)>>,
   pos |-> <<Vec(Fl(-1, 0), Fl(1, -2), Zero),
             Vec(Fl(1, -1), Fl(-3, -3), Fl(1, -3))>>,
   vel |-> <<Vec(Fl(1, -8), Fl(3, -7), Zero),
             Vec(Zero, Fl(-1, -5), Fl(1, -7))>>,
   softening |-> Fl(1, -1)]

\* three bodies: masses 1.10, 0.95 and an Earth-mass planet (3.003e-6)
ArgsTriple ==
  [masses |-> <<Fl(141, -7), Fl(243, -8), Fl(403, -27)>>,
   pos |-> <<Vec(Fl(-5, -2), Zero, Fl(1, -3)),
             Vec(Zero, Fl(1, -2), Zero),
             Vec(Fl(1, 0), Fl(3, -2), Fl(-1, -2))>>,
   vel |-> <<Vec(Zero, Fl(3, -9), Zero),
             Vec(Fl(1, -9), Fl(-1, -7), Zero),
             Vec(Fl(-3, -9), Zero, Fl(1, -6))>>,
   softening |-> Fl(1, -2)]

ExtraVec == Vec(Fl(7, 0), Fl(7, 0), Fl(7, 0))

\* arguments whose three lengths are not all equal
ArgsMismatched ==
  {[ArgsPairEqual EXCEPT !.pos = SubSeq(@, 1, 1)],
   [ArgsPairEqual EXCEPT !.vel = SubSeq(@, 1, 1)],
   [ArgsPairEqual EXCEPT !.pos = Append(@, ExtraVec)],
   [ArgsPairEqual EXCEPT !.vel = Append(@, ExtraVec)]}

\* the separation at which two bodies of one solar mass touch, with the
\* default fudge of 1.2
TouchSep ==
  FAdd(FMul(PhysicalRadiusAU(One), Fl(1229, -10)),
       FMul(PhysicalRadiusAU(One), Fl(1229, -10)))

\* two suns at rest, their centres TouchSep apart
ArgsTouching ==
  [masses |-> <<One, One>>,
   pos |-> <<Vec(Zero, Zero, Zero), Vec(TouchSep, Zero, Zero)>>,
   vel |-> <<Vec(Zero, Zero, Zero), Vec(Zero, Zero, Zero)>>,
   softening |-> Fl(537, -29)]

\* the same, a little closer
ArgsOverlapping ==
  [ArgsTouching EXCEPT
     !.pos[2] = Vec(FMul(TouchSep, Fl(255, -8)), Zero, Zero)]

\* two bodies without a valid mass (0 and -1), 2^-16 AU apart
ArgsDust ==
  [masses |-> <<Zero, Fl(-1, 0)>>,
   pos |-> <<Vec(Zero, Zero, Zero), Vec(Fl(1, -16), Zero, Zero)>>,
   vel |-> <<Vec(Zero, Fl(1, -8), Zero), Vec(Zero, Fl(-1, -8), Zero)>>,
   softening |-> Fl(537, -29)]

\* two suns in the same place, the softening set to 0
ArgsCoincident ==
  [ArgsTouching EXCEPT !.pos[2] = Vec(Zero, Zero, Zero), !.softening = Zero]

CtorArgs ==
  {ArgsPairEqual, ArgsPairUnequal, ArgsTriple, ArgsTouching, ArgsOverlapping,
   ArgsDust, ArgsCoincident}
    \cup ArgsMismatched

\* step size in days
DTs == {Fl(1, 2)}

\* value a caller writes into a snapshot
Scribble == Fl(7, 0)

\* detector options: the defaults, and values that let bodies this far apart
\* and this slow come within reach
CollisionOpts ==
  {[mode |-> "core", fudge |-> Fl(1229, -10), dt |-> NaN],
   [mode |-> "vdt", fudge |-> One, dt |-> Fl(1, 7)],
   [mode |-> "vdt", fudge |-> One, dt |-> Fl(1, 6)],
   [mode |-> "vdt", fudge |-> One, dt |-> Undefined],
   [mode |-> "vdt", fudge |-> One, dt |-> PInf],
   [mode |-> "vdt", fudge |-> NaN, dt |-> Fl(1, 7)],
   [mode |-> "core", fudge |-> Undefined, dt |-> Undefined]}

EscapeOpts ==
  {[maxSepAU |-> Fl(5, 0), fudge |-> Fl(563, -9)],
   [maxSepAU |-> Half, fudge |-> Fl(563, -9)]}

\* frames of the driver loop on one engine
MaxFrames == 7
\* edits of params between two rebuilds
MaxEdits == 1

\* app.js: let params = {...}
DefaultParams ==
  [masses |-> <<Fl(141, -7), Fl(243, -8), Fl(3, -2), Fl(403, -27)>>,
   pos |-> <<Vec(Fl(-77, -6), Zero, Zero), Vec(Zero, Zero, Zero),
             Vec(One, Fl(205, -8), Zero), Vec(Fl(1, -2), Zero, Zero)>>,
   vel |-> <<Vec(Zero, Fl(197, -15), Zero), Vec(Zero, Fl(-131, -14), Zero),
             Vec(Fl(-197, -15), Zero, Zero), Vec(Zero, Fl(41, -11), Zero)>>,
   timeScale |-> Fl(5, 0),
   trailLen |-> 3000,
   softening |-> Fl(537, -29)]

\* presets.js: PRESETS, by key
PRESETS ==
  [tristarPlanet |->
     [masses |-> DefaultParams.masses,
      pos |-> DefaultParams.pos,
      vel |-> [DefaultParams.vel EXCEPT ![4] = Vec(Zero, Fl(105, -12), Zero)]],
   sunEarthJupiter |->
     [masses |-> <<One, Fl(403, -27), Fl(125, -17), Fl(403, -27)>>,
      pos |-> <<Vec(Zero, Zero, Zero), Vec(One, Zero, Zero),
                Vec(Fl(83, -4), Zero, Zero), Vec(Fl(83, -6), Zero, Zero)>>,
      vel |-> <<Vec(Zero, Zero, Zero), Vec(Zero, Fl(141, -13), Zero),
                Vec(Zero, Fl(121, -14), Zero), Vec(Zero, Fl(123, -13), Zero)>>]]

\* the preset buttons pressed
PresetKeys == {"tristarPlanet"}
\* a key that PRESETS does not have
UnknownKeys == {"figure9"}

\* values typed into the input fields: the planet sent off at 0.5 AU/day,
\* the mass of the first star raised to 1.5, the softening slider at 0.5
TypedRunaway ==
  [masses |-> [DefaultParams.masses EXCEPT ![1] = OneAndHalf],
   pos |-> DefaultParams.pos,
   vel |-> [DefaultParams.vel EXCEPT ![4] = Vec(Half, Fl(41, -11), Zero)],
   timeScale |-> Fl(5, 0),
   trailLen |-> 3000,
   softening |-> Half]

\* the input fields when a handler reads them: as they were bound, or typed
Typed(p) == {p, TypedRunaway}

\* positions of the softening slider
Softenings == {Half}

----------------------------------------------------------------------------
\* The text of the input fields. A numeral is a sign, decimal digits d and a
\* power of ten k: [neg, d, k] stands for (-)d * 10^k. '.value = number'
\* writes String(number), the shortest numeral that reads back as the
\* number; parseFloat reads the number nearest to the numeral.

RECURSIVE Pow10(_)
Pow10(j) == IF j <= 0 THEN 1 ELSE 10 * Pow10(j - 1)

\* the quotient bits of r / t are shifted into q, one a step, until q has two
\* bits more than a mantissa; what is left of r makes the last bit sticky
RECURSIVE ParseDiv(_, _, _, _)
ParseDiv(q, r, t, s) ==
  IF q >= 2 ^ (Prec + 1)
  THEN Round(1, 2 * q + (IF r > 0 THEN 1 ELSE 0), -(s + 1))
  ELSE IF 2 * r >= t THEN ParseDiv(2 * q + 1, 2 * r - t, t, s + 1)
       ELSE ParseDiv(2 * q, 2 * r, t, s + 1)

\* parseFloat of a numeral: the number nearest to d * 10^k, ties to even
ParseFloat(txt) ==
  IF txt.d = 0 THEN Zero
  ELSE IF txt.k >= 0
       THEN Round(IF txt.neg THEN -1 ELSE 1, txt.d * Pow10(txt.k), 0)
       ELSE [ParseDiv(txt.d \div Pow10(-txt.k), txt.d % Pow10(-txt.k),
                      Pow10(-txt.k), 0)
               EXCEPT !.m = IF txt.neg THEN -@ ELSE @]

\* floor(d * 2^s / t), cut off above every mantissa, and the remainder
RECURSIVE LongDiv(_, _, _, _)
LongDiv(q, r, t, s) ==
  IF s <= 0 \/ q >= 2 ^ (Prec + 2) THEN <<q, r>>
  ELSE IF 2 * r >= t THEN LongDiv(2 * q + 1, 2 * r - t, t, s - 1)
       ELSE LongDiv(2 * q, 2 * r, t, s - 1)

\* the sign of a - q, and of -r where they are equal
CmpQuot(a, qr) ==
  IF a > qr[1] THEN 1 ELSE IF a < qr[1] \/ qr[2] > 0 THEN -1 ELSE 0

\* the sign of x - d * 10^k, exactly, for a positive x and k <= 0
CmpDec(x, d, k) ==
  CmpQuot(x.m * 2 ^ Max(x.e, 0),
          LongDiv(d \div Pow10(-k), d % Pow10(-k), Pow10(-k), Max(-x.e, 0)))

\* the largest j <= 0 with 10^j <= x, for a positive x below 10
RECURSIVE Decade(_, _)
Decade(x, j) == IF j <= -9 \/ CmpDec(x, 1, j) >= 0 THEN j ELSE Decade(x, j - 1)

\* the least d in lo..hi with x <= d * 10^k
RECURSIVE LeastAbove(_, _, _, _)
LeastAbove(x, k, lo, hi) ==
  IF lo >= hi THEN lo
  ELSE IF CmpDec(x, (lo + hi) \div 2, k) <= 0
       THEN LeastAbove(x, k, lo, (lo + hi) \div 2)
       ELSE LeastAbove(x, k, (lo + hi) \div 2 + 1, hi)

\* a numeral without a sign, 10^n written as 1
Numeral(d, k, n) ==
  IF d = Pow10(n) THEN [neg |-> FALSE, d |-> 1, k |-> k + n]
  ELSE [neg |-> FALSE, d |-> d, k |-> k]

NoText == [neg |-> FALSE, d |-> 0, k |-> 1]

RECURSIVE Shortest(_, _, _)
\* of the two n-digit numerals around x, dc - 1 and dc, the nearer one that
\* reads back as x, the other one if only that does, and a longer numeral
\* if neither does
Digits(x, kk, n, dc) ==
  IF ParseFloat(Numeral(dc, kk - n + 1, n)) = x
       /\ (dc = Pow10(n - 1)
             \/ ParseFloat(Numeral(dc - 1, kk - n + 1, n)) # x
             \/ CmpDec([x EXCEPT !.e = @ + 1], 2 * dc - 1, kk - n + 1) >= 0)
  THEN Numeral(dc, kk - n + 1, n)
  ELSE IF dc > Pow10(n - 1) /\ ParseFloat(Numeral(dc - 1, kk - n + 1, n)) = x
       THEN Numeral(dc - 1, kk - n + 1, n)
       ELSE Shortest(x, kk, n + 1)

\* the shortest numeral that reads back as the positive x, from n digits on
Shortest(x, kk, n) ==
  IF n - 1 - kk > 9 THEN NoText
  ELSE Digits(x, kk, n,
              LeastAbove(x, kk - n + 1, Pow10(n - 1), Pow10(n)))

\* String(x) cut to two digits
NumberTextShort(x) ==
  IF IsZero(x) THEN [neg |-> FALSE, d |-> 0, k |-> 0]
  ELSE [Numeral(LeastAbove(FAbs(x), Decade(FAbs(x), 0) - 1, 10, 100),
                Decade(FAbs(x), 0) - 1, 2)
          EXCEPT !.neg = x.m < 0]

\* String(x) of a finite number
NumberText(x) ==
  IF IsZero(x) THEN [neg |-> FALSE, d |-> 0, k |-> 0]
  ELSE [Shortest(FAbs(x), Decade(FAbs(x), 0), 1) EXCEPT !.neg = x.m < 0]

\* String(n) of an integer
IntText(n) == [neg |-> n < 0, d |-> Abs(n), k |-> 0]

\* parseInt of a numeral: the digits before the decimal point
ParseInt(txt) ==
  (IF txt.neg THEN -1 ELSE 1)
    * (IF txt.k >= 0 THEN txt.d * Pow10(txt.k) ELSE txt.d \div Pow10(-txt.k))

Texts(s) == [i \in 1..Len(s) |-> NumberText(s[i])] \o <<>>
Numbers(ts) == [i \in 1..Len(ts) |-> ParseFloat(ts[i])] \o <<>>
Texts3(s) == [i \in 1..Len(s) |-> Texts(s[i])] \o <<>>
Numbers3(ts) == [i \in 1..Len(ts) |-> Numbers(ts[i])] \o <<>>

\* bindInputs(p): $('m' + i).value = p.masses[i], and so on
BindInputs(p) ==
  [masses |-> Texts(p.masses), pos |-> Texts3(p.pos), vel |-> Texts3(p.vel),
   timescale |-> NumberText(p.timeScale), traillen |-> IntText(p.trailLen),
   softening |-> NumberText(p.softening)]

\* the user types the numbers of t into the fields f
Typing(f, t) == [BindInputs(t) EXCEPT !.traillen = f.traillen]

\* parseFloat($('m' + i).value), and so on: what the fields f read as
FieldValues(f) ==
  [masses |-> Numbers(f.masses), pos |-> Numbers3(f.pos),
   vel |-> Numbers3(f.vel), timeScale |-> ParseFloat(f.timescale),
   trailLen |-> ParseInt(f.traillen), softening |-> ParseFloat(f.softening)]

\* the trail-length field typed over
TrailTexts == {IntText(2), IntText(4)}

\* clock.getDelta(): seconds since the last frame, at 64 frames a second
Deltas == {Fl(1, -6)}

\* detector configuration of a frame: the defaults; a lower maxSepAU; the
\* 'vdt' radii with dt of 64 days
DetectorCfgs ==
  {[collision |-> [mode |-> "core", fudge |-> Fl(1229, -10), dt |-> NaN],
    escape |-> [maxSepAU |-> Fl(5, 0), fudge |-> Fl(563, -9)]],
   [collision |-> [mode |-> "core", fudge |-> Fl(1229, -10), dt |-> NaN],
    escape |-> [maxSepAU |-> Fl(1, -2), fudge |-> Fl(563, -9)]],
   [collision |-> [mode |-> "vdt", fudge |-> One, dt |-> Fl(1, 6)],
    escape |-> [maxSepAU |-> Fl(5, 0), fudge |-> Fl(563, -9)]]}

\* escape counters of n bodies, all zero
NoCounts(n) == [k \in 1..n |-> 0]

\* nothing seen yet on a new engine
NothingSeen(n) ==
  [frames |-> 0, edits |-> 0, run |-> NoCounts(n), hits |-> NoCounts(n)]

----------------------------------------------------------------------------
\* State

VARIABLES
  heap,    \* address -> array contents
  engine,  \* the caller's engine variable (app.js: let engine = null)
  snap,    \* the array getPositions last returned, still held by the caller
  ret,     \* the last call: its name, arguments and result
  steps,   \* step calls made on the current engine
  params,  \* app.js: let params = { masses, pos, vel, timeScale, trailLen,
           \* softening }
  paused,  \* app.js: let paused = false
  escape,  \* the driver's escape counters, one per body
  seen,    \* frames run on the current engine, and what the detector said
  simTimeDays,  \* app.js: let simTimeDays = 0
  drawn,   \* the canvas shows the scene as it is now
  raf,     \* frame callbacks requested and not yet run
  fields,  \* the text of the input fields of the page
  trails   \* renderer.js: trails[i].points, a flat array of coordinates

\* the variables of the page
page == <<fields, trails>>

\* the variables of the driver loop
driver == <<params, paused, escape, seen, simTimeDays, drawn, raf, page>>

vars ==
  <<heap, engine, snap, ret, steps, params, paused, escape, seen,
    simTimeDays, drawn, raf, fields, trails>>

NoSnap == [refs |-> <<>>, writes |-> 0]

\* addresses still referenced by the caller
Roots(eng, sn) ==
  (IF eng.live THEN {eng.m, eng.state} ELSE {})
    \cup {sn.refs[i].buf : i \in DOMAIN sn.refs}

\* Garbage collection.  Arrays nothing refers to any more are gone, and the
\* others move down to the lowest addresses, in their order: an address is
\* not observable in the program.
Rank(live, a) == Cardinality({b \in live : b <= a})

Moved(live, r) == [r EXCEPT !.buf = Rank(live, @)]

SettleLive(h, eng, sn, live) ==
  [heap |-> [r \in 1..Cardinality(live) |->
               h[CHOOSE a \in live : Rank(live, a) = r]],
   engine |-> IF eng.live
              THEN [eng EXCEPT !.m = Rank(live, @), !.state = Rank(live, @)]
              ELSE eng,
   snap |-> [sn EXCEPT !.refs = [i \in DOMAIN @ |-> Moved(live, @[i])]]]

Settle(h, eng, sn) == SettleLive(h, eng, sn, (DOMAIN h) \cap Roots(eng, sn))

\* the caller's variables after a call that left them in w
Becomes(w) == heap' = w.heap /\ engine' = w.engine /\ snap' = w.snap

\* contents of the engine's state buffer and mass array
StateOf(h, eng) == h[eng.state]
MassOf(h, eng) == h[eng.m]
\* the state buffer before a call, for the record of the call
Before == IF engine.live THEN StateOf(heap, engine) ELSE <<>>

\* contents of the entries of a snapshot
SnapVals(h, sn) ==
  [i \in DOMAIN sn.refs |-> Rd3(h, sn.refs[i].buf, sn.refs[i].off)]

Init ==
  /\ heap = <<>>
  /\ engine = NoEngine
  /\ snap = NoSnap
  /\ ret = [op |-> "init"]
  /\ steps = 0
  /\ params = DefaultParams
  /\ paused = FALSE
  /\ escape = NoCounts(Len(DefaultParams.masses))
  /\ seen = NothingSeen(Len(DefaultParams.masses))
  /\ simTimeDays = Zero
  /\ drawn = FALSE
  /\ raf = 0
  /\ fields = BindInputs(DefaultParams)
  /\ trails = <<>>

\* engine = new NBodyRK4(masses, pos, vel, softening), in rebuildEngine: no
\* frame is running, so no snapshot is held.  When the constructor throws,
\* the variable keeps its value.
Construct(a) ==
  /\ \E c \in {Constructor(heap, a.masses, a.pos, a.vel, a.softening)} :
       /\ IF c.ok
          THEN Becomes(Settle(c.h, c.eng, NoSnap)) /\ steps' = 0
          ELSE UNCHANGED <<heap, engine, snap, steps>>
       /\ ret' = [op |-> "construct", ok |-> c.ok, args |-> a]
  /\ UNCHANGED driver

\* engine.step(dt)
DoStep(dt) ==
  /\ engine.live
  /\ steps < MaxSteps
  /\ Becomes(Settle(Step(heap, engine, dt), engine, snap))
  /\ ret' = [op |-> "step", dt |-> dt, before |-> Before]
  /\ steps' = steps + 1
  /\ UNCHANGED driver

\* k = new Float64Array(6n); engine.deriv(k, engine.state)
CallDeriv ==
  /\ engine.live
  /\ \E f \in {StepFirst(New(Frame(heap), Zeros(StateLen(engine.n))), engine)} :
       /\ Becomes(Settle(f.h, engine, snap))
       /\ ret' = [op |-> "deriv", out |-> f.h[f.loc[1]], before |-> Before]
  /\ UNCHANGED <<steps, driver>>

\* engine.energy()
CallEnergy ==
  /\ engine.live
  /\ \E r \in {Energy(heap, engine)} :
       /\ Becomes(Settle(r.h, engine, snap))
       /\ ret' = [op |-> "energy", val |-> r.ret, before |-> Before]
  /\ UNCHANGED <<steps, driver>>

\* pos = engine.getPositions()
CallGetPositions ==
  /\ engine.live
  /\ \E r \in {GetPositions(heap, engine)} :
       Becomes(Settle(r.h, engine, [refs |-> r.ret, writes |-> 0]))
  /\ ret' = [op |-> "getPositions", before |-> Before]
  /\ UNCHANGED <<steps, driver>>

\* pos[i][a] = v, by the caller that holds the snapshot
WriteSnapshot(i, a, v) ==
  /\ snap.writes < MaxWrites
  /\ i \in DOMAIN snap.refs
  /\ Becomes(Settle(Wr(heap, snap.refs[i].buf, snap.refs[i].off + a, v),
                    engine, [snap EXCEPT !.writes = @ + 1]))
  /\ ret' = [op |-> "write", i |-> i, a |-> a, before |-> Before]
  /\ UNCHANGED <<steps, driver>>

\* pos[i] = [v, v, v], by the caller that holds the snapshot
AssignSnapshot(i, v) ==
  /\ snap.writes < MaxWrites
  /\ i \in DOMAIN snap.refs
  /\ \E e \in {EntryOf(New(Frame(heap), <<v, v, v>>))} :
       Becomes(Settle(e.h, engine,
                      [snap EXCEPT !.writes = @ + 1, !.refs[i] = e.ref]))
  /\ ret' = [op |-> "assign", i |-> i, before |-> Before]
  /\ UNCHANGED <<steps, driver>>

\* detectCollision({engine, masses, opts}), masses the values the engine
\* was built from
CallDetectCollision(opts) ==
  /\ engine.live
  /\ \E r \in {DetectCollision(heap, engine, MassOf(heap, engine), opts)} :
       /\ Becomes(Settle(r.h, engine, snap))
       /\ ret' = [op |-> "detectCollision", opts |-> opts, res |-> r.ret,
                  r |-> r.r, before |-> Before]
  /\ UNCHANGED <<steps, driver>>

\* detectEscape({engine, masses, maxSepAU, fudge})
CallDetectEscape(opts) ==
  /\ engine.live
  /\ \E r \in {DetectEscape(heap, engine, MassOf(heap, engine),
                            opts.maxSepAU, opts.fudge)} :
       /\ Becomes(Settle(r.h, engine, snap))
       /\ ret' = [op |-> "detectEscape", opts |-> opts, res |-> r.ret,
                  before |-> Before]
  /\ UNCHANGED <<steps, driver>>

Next ==
  \/ \E a \in CtorArgs : Construct(a)
  \/ \E dt \in DTs : DoStep(dt)
  \/ CallDeriv
  \/ CallEnergy
  \/ CallGetPositions
  \/ \E i \in {1, 2} : WriteSnapshot(i, 0, Scribble)
  \/ AssignSnapshot(2, Scribble)
  \/ \E o \in CollisionOpts : CallDetectCollision(o)
  \/ \E o \in EscapeOpts : CallDetectEscape(o)

Spec == Init /\ [][Next]_vars

----------------------------------------------------------------------------
\* The driver loop of app.js

\* const subSteps = 4
SubSteps == 4

\* a step size that is the whole of the frame's time
FrameDtWhole(delta, timeScale) == FMul(delta, timeScale)

\* dt = (delta * params.timeScale) / subSteps
FrameDt(delta, timeScale) == FDiv(FMul(delta, timeScale), Fl(SubSteps, 0))

\* for (let i=0;i<subSteps;i++) engine.step(dt): the heap afterwards
RECURSIVE Advance(_, _, _, _)
Advance(h, eng, dt, i) ==
  IF i >= SubSteps \/ eng.state \notin DOMAIN h THEN h
  ELSE Advance(Settle(Step(h, eng, dt), eng, NoSnap).heap, eng, dt, i + 1)

\* let advanced = 0; advanced += dt, once per sub-step
RECURSIVE Advanced(_, _, _)
Advanced(dt, i, acc) ==
  IF i >= SubSteps THEN acc ELSE Advanced(dt, i + 1, FAdd(acc, dt))

\* readInputsIntoParams(params), the fields holding t
ReadInputs(p, t) ==
  [p EXCEPT !.masses = t.masses, !.pos = t.pos, !.vel = t.vel,
            !.timeScale = t.timeScale, !.trailLen = t.trailLen,
            !.softening = t.softening]

\* resetTrails(pos): trails[i].points = [pos[i][0], pos[i][1], pos[i][2]]
ResetTrails(pos) ==
  [i \in 1..Len(pos) |-> <<pos[i][1], pos[i][2], pos[i][3]>>] \o <<>>

\* t.points.push(x, y, z), of the position p
Pushed(points, p) == points \o <<p[1], p[2], p[3]>>

\* if (t.points.length / 3 > maxLen) t.points.splice(0, 3)
Spliced(points, maxLen) ==
  IF Len(points) \div 3 > maxLen THEN SubSeq(points, 4, Len(points))
  ELSE points

\* updateTrail(i, x, y, z, maxLen)
UpdateTrail(points, p, maxLen) == Spliced(Pushed(points, p), maxLen)

\* for (i < pos.length) R.updateTrail(i, pos[i][0], pos[i][1], pos[i][2],
\* params.trailLen), pos the positions on the heap h
UpdateTrails(tr, h, eng, maxLen) ==
  [i \in 1..Len(tr) |->
     IF i <= eng.n
     THEN UpdateTrail(tr[i], Rd3(h, eng.state, 3 * (i - 1)), maxLen)
     ELSE tr[i]] \o <<>>

\* params = {...params, masses, pos, vel} of the preset p
WithPreset(q, p) ==
  [q EXCEPT !.masses = p.masses, !.pos = p.pos, !.vel = p.vel]

\* a handler that also writes the new softening into the running engine
SofteningSetLive(p, eng, v) ==
  [params |-> [p EXCEPT !.softening = v],
   engine |-> [eng EXCEPT !.soft2 = FMul(v, v)]]

\* params.softening = parseFloat(...): the handler has no other effect
SofteningSet(p, eng, v) ==
  [params |-> [p EXCEPT !.softening = v], engine |-> eng]

\* The detector calls and the debounce of a frame, as the specification of
\* the driver gives them.

\* escape counter at which an escape is final
ConsecutiveThreshold == 8

Least(a, b) == IF a < b THEN a ELSE b

\* a decay without the floor
EscapeDecayBelowZero(c) == [k \in DOMAIN c |-> c[k] - 1]

\* every counter decays by 1, with floor 0
EscapeDecay(c) == [k \in DOMAIN c |-> Max(c[k] - 1, 0)]

\* a candidate that is final at once
EscapeGrowAtOnce(c) == ConsecutiveThreshold

\* a candidate that only makes up for the decay
EscapeGrowByOne(c) == Least(c + 1, ConsecutiveThreshold)

\* the counter of the candidate grows by 2, capped at the threshold
EscapeGrow(c) == Least(c + 2, ConsecutiveThreshold)

EscapeBump(c, esc) ==
  IF esc = Null \/ (esc.index + 1) \notin DOMAIN c THEN c
  ELSE [c EXCEPT ![esc.index + 1] = EscapeGrow(@)]

\* the counters after a frame in which the detector returned esc
Debounce(c, esc) == EscapeBump(EscapeDecay(c), esc)

\* the body whose escape the frame declares final: -1 for none
EscapeFinal(c, esc) ==
  IF esc # Null /\ (esc.index + 1) \in DOMAIN c
     /\ c[esc.index + 1] >= ConsecutiveThreshold
  THEN esc.index ELSE -1

\* a pause set by collisions only
HaltOnCollision(col, final) == col # Null

\* the pause flag after the detectors of a frame
Halt(col, final) == col # Null \/ final >= 0

\* counters that outlive the engine
RebuildCountsKept(c, n) == IF Len(c) = n THEN c ELSE NoCounts(n)

\* the counters of a new engine
RebuildCounts(c, n) == NoCounts(n)

\* what the frames on this engine have shown, after one more frame
SeenAfter(sn, esc) ==
  [sn EXCEPT
     !.frames = @ + 1,
     !.run = [k \in DOMAIN @ |->
                IF esc # Null /\ esc.index + 1 = k THEN @[k] + 1 ELSE 0],
     !.hits = [k \in DOMAIN @ |->
                 IF esc # Null /\ esc.index + 1 = k
                 THEN Least(@[k] + 1, 2) ELSE @[k]]]

\* the end of a running frame: detectors on the end-of-frame heap h
FrameEnd(h, col, esc, cnt) ==
  /\ Becomes(Settle(esc.h, engine, NoSnap))
  /\ escape' = cnt
  /\ paused' = Halt(col.ret, EscapeFinal(cnt, esc.ret))
  /\ seen' = SeenAfter(seen, esc.ret)
  /\ ret' = [op |-> "frame", edits |-> seen.edits,
             timeScale |-> params.timeScale, time |-> simTimeDays,
             trailLen |-> params.trailLen,
             collision |-> col.ret, escape |-> esc.ret,
             final |-> EscapeFinal(cnt, esc.ret), before |-> Before,
             after |-> StateOf(h, engine)]

\* an escape detector that looks at the state the frame started from
FrameEscapeStale(h, cfg, col) ==
  \E esc \in {[DetectEscape(col.h, engine, MassOf(col.h, engine),
                             cfg.escape.maxSepAU, cfg.escape.fudge)
                EXCEPT !.ret = DetectEscape(heap, engine,
                                            MassOf(heap, engine),
                                            cfg.escape.maxSepAU,
                                            cfg.escape.fudge).ret]} :
    FrameEnd(h, col, esc, Debounce(escape, esc.ret))

\* the escape detector on the heap the collision detector left
FrameEscape(h, cfg, col) ==
  \E esc \in {DetectEscape(col.h, engine, MassOf(col.h, engine),
                            cfg.escape.maxSepAU, cfg.escape.fudge)} :
    FrameEnd(h, col, esc, Debounce(escape, esc.ret))

\* the detectors on the end-of-frame heap h, under configuration cfg
FrameDetect(h, cfg) ==
  \E col \in {DetectCollision(h, engine, MassOf(h, engine), cfg.collision)} :
    FrameEscape(h, cfg, col)

\* a render call inside the branch that integrates
DrawnIfRunning(running, d) == running \/ d

\* R.render(), whether the frame integrated or not
Drawn(running, d) == TRUE

\* requestAnimationFrame(frame), by the callback that has just started
Requested(r) == (r - 1) + 1

\* function frame(): one display frame
frame(delta) ==
  /\ raf > 0
  /\ raf' = Requested(raf)
  /\ drawn' = Drawn(engine.live /\ ~paused, drawn)
  /\ IF engine.live /\ ~paused
     THEN /\ seen.frames < MaxFrames
          /\ \E h \in {Advance(heap, engine,
                                FrameDt(delta, params.timeScale), 0)} :
               /\ \E cfg \in DetectorCfgs : FrameDetect(h, cfg)
               /\ trails' = UpdateTrails(trails, h, engine, params.trailLen)
          /\ steps' = steps + SubSteps
          /\ simTimeDays' =
               FAdd(simTimeDays,
                    Advanced(FrameDt(delta, params.timeScale), 0, Zero))
          /\ UNCHANGED <<params, fields>>
     ELSE UNCHANGED <<heap, engine, snap, ret, steps, params, paused, escape,
                      seen, simTimeDays, fields, trails>>

\* function rebuildEngine(), the input fields holding t
Rebuilt(p, c) ==
  /\ params' = p
  /\ drawn' = FALSE
  /\ UNCHANGED raf
  /\ IF c.ok
     THEN /\ Becomes(Settle(c.h, c.eng, NoSnap))
          /\ steps' = 0
          /\ escape' = RebuildCounts(escape, Len(p.masses))
          /\ seen' = NothingSeen(Len(p.masses))
          /\ simTimeDays' = Zero
          /\ trails' = ResetTrails(p.pos)
     ELSE UNCHANGED <<heap, engine, snap, steps, escape, seen, simTimeDays,
                      trails>>

rebuildEngine(t) ==
  /\ \E f \in {Typing(fields, t)} :
       \E p \in {ReadInputs(params, FieldValues(f))} :
         \E c \in {Constructor(heap, p.masses, p.pos, p.vel, p.softening)} :
           /\ fields' = f
           /\ Rebuilt(p, c)
           /\ ret' = [op |-> "rebuild", ok |-> c.ok,
                      had |-> escape # NoCounts(Len(escape))]
  /\ UNCHANGED paused

\* the warning without the return: the handler's last line is reached
UnknownPresetUnpauses ==
  /\ paused' = FALSE
  /\ UNCHANGED <<heap, engine, snap, ret, steps, params, escape, seen,
                 simTimeDays, drawn, raf, fields, trails>>

\* if (!p) { console.warn(...); return; }
UnknownPreset == UNCHANGED vars

\* const p = PRESETS[key], undefined for a key that PRESETS lacks
PresetOf(key) == IF key \in DOMAIN PRESETS THEN PRESETS[key] ELSE Null

\* function applyPreset(key): bindInputs writes the new params to the
\* fields, rebuildEngine reads them back
applyPreset(key) ==
  \E preset \in {PresetOf(key)} :
    IF preset = Null
    THEN UnknownPreset
    ELSE \E f \in {BindInputs(WithPreset(params, preset))} :
         \E p \in {ReadInputs(WithPreset(params, preset), FieldValues(f))} :
           \E c \in {Constructor(heap, p.masses, p.pos, p.vel, p.softening)} :
             /\ fields' = f
             /\ Rebuilt(p, c)
             /\ ret' = [op |-> "preset", ok |-> c.ok, key |-> key,
                        had |-> escape # NoCounts(Len(escape))]
             /\ paused' = IF c.ok THEN FALSE ELSE paused

\* onPause
onPause ==
  /\ paused' = ~paused
  /\ UNCHANGED <<heap, engine, snap, ret, steps, params, escape, seen,
                 simTimeDays, drawn, raf, fields, trails>>

\* onTraillen, the field typed over with txt
onTraillen(txt) ==
  /\ fields' = [fields EXCEPT !.traillen = txt]
  /\ params' = [params EXCEPT !.trailLen = ParseInt(txt)]
  /\ UNCHANGED <<heap, engine, snap, ret, steps, paused, escape, seen,
                 simTimeDays, drawn, raf, trails>>

\* onSoftening, the slider moved to v
onSoftening(v) ==
  /\ seen.edits < MaxEdits
  /\ v # params.softening
  /\ fields' = [fields EXCEPT !.softening = NumberText(v)]
  /\ \E w \in {SofteningSet(params, engine, ParseFloat(NumberText(v)))} :
       params' = w.params /\ engine' = w.engine
  /\ seen' = [seen EXCEPT !.edits = @ + 1]
  /\ UNCHANGED <<heap, snap, ret, steps, paused, escape, simTimeDays,
                 drawn, raf, trails>>

\* onCopyJSON: readInputsIntoParams(params), the fields edited to t
onCopyJSON(t) ==
  /\ seen.edits < MaxEdits
  /\ \E f \in {Typing(fields, t)} :
       /\ ReadInputs(params, FieldValues(f)) # params
       /\ fields' = f
       /\ params' = ReadInputs(params, FieldValues(f))
  /\ seen' = [seen EXCEPT !.edits = @ + 1]
  /\ UNCHANGED <<heap, engine, snap, ret, steps, paused, escape,
                 simTimeDays, drawn, raf, trails>>

AppNext ==
  \/ \E delta \in Deltas : frame(delta)
  \/ \E t \in Typed(params) : rebuildEngine(t)
  \/ \E key \in PresetKeys \cup UnknownKeys : applyPreset(key)
  \/ onPause
  \/ \E v \in Softenings : onSoftening(v)
  \/ onCopyJSON(TypedRunaway)

\* After the module has loaded: applyPreset('tristar-planet') has run, and
\* the first call of frame is about to be made
Booted(p, c) ==
  /\ \E w \in {Settle(c.h, c.eng, NoSnap)} :
       heap = w.heap /\ engine = w.engine /\ snap = w.snap
  /\ ret = [op |-> "preset", ok |-> c.ok, key |-> "tristarPlanet",
            had |-> FALSE]
  /\ steps = 0
  /\ params = p
  /\ paused = FALSE
  /\ escape = NoCounts(Len(p.masses))
  /\ seen = NothingSeen(Len(p.masses))
  /\ simTimeDays = Zero
  /\ drawn = FALSE
  /\ raf = 1
  /\ trails = ResetTrails(p.pos)

AppInit ==
  \E f \in {BindInputs(WithPreset(DefaultParams, PRESETS["tristarPlanet"]))} :
    \E p \in {ReadInputs(WithPreset(DefaultParams, PRESETS["tristarPlanet"]),
                          FieldValues(f))} :
      /\ fields = f
      /\ Booted(p, Constructor(<<>>, p.masses, p.pos, p.vel, p.softening))

AppSpec == AppInit /\ [][AppNext]_vars

\* the page with the trail-length field in use
TrailNext ==
  \/ \E delta \in Deltas : frame(delta)
  \/ rebuildEngine(params)
  \/ \E txt \in TrailTexts : onTraillen(txt)

TrailSpec == AppInit /\ [][TrailNext]_vars

----------------------------------------------------------------------------
\* What the calls are to compute, on buffer contents (sequences, slot k of
\* the source at index k + 1), each operation rounded in the source's order

Slot(st, k) == st[k + 1]

\* a function on 1..n as the sequence of its values
AsSeq(f) == f \o <<>>

SpecDelta(st, i, j, a) == FSub(Slot(st, 3 * i + a), Slot(st, 3 * j + a))

\* |pos_i - pos_j|^2 + softening^2
SpecR2(st, i, j, soft2) ==
  FAdd(FAdd(FAdd(FMul(SpecDelta(st, i, j, 0), SpecDelta(st, i, j, 0)),
                 FMul(SpecDelta(st, i, j, 1), SpecDelta(st, i, j, 1))),
            FMul(SpecDelta(st, i, j, 2), SpecDelta(st, i, j, 2))),
       soft2)

\* f * (pos_i - pos_j)
SpecScaled(f, st, i, j) ==
  <<FMul(f, SpecDelta(st, i, j, 0)), FMul(f, SpecDelta(st, i, j, 1)),
    FMul(f, SpecDelta(st, i, j, 2))>>

\* -G * mass_j * r2^-1.5 * (pos_i - pos_j)
SpecPull(st, ms, soft2, i, j) ==
  SpecScaled(FMul(FMul(FNeg(G), Slot(ms, j)),
                  FDiv(One, Pow(SpecR2(st, i, j, soft2), OneAndHalf))),
             st, i, j)

SpecSum3(p, q) == <<FAdd(p[1], q[1]), FAdd(p[2], q[2]), FAdd(p[3], q[3])>>

\* the sum of the pulls on i of the bodies 0 .. j other than i
RECURSIVE SpecAccel(_, _, _, _, _)
SpecAccel(st, ms, soft2, i, j) ==
  IF j < 0 THEN <<Zero, Zero, Zero>>
  ELSE IF j = i THEN SpecAccel(st, ms, soft2, i, j - 1)
  ELSE SpecSum3(SpecAccel(st, ms, soft2, i, j - 1),
                SpecPull(st, ms, soft2, i, j))

\* the velocity block of st, then the accelerations acc[i + 1] of the bodies i
SpecDerivOf(st, n, acc) ==
  AsSeq([k \in 1..Len(st) |->
           IF k <= 3 * n THEN st[3 * n + k]
           ELSE acc[((k - 3 * n - 1) \div 3) + 1][((k - 3 * n - 1) % 3) + 1]])

\* the derivative of st
SpecDeriv(st, ms, soft2) ==
  SpecDerivOf(st, Len(ms),
              AsSeq([b \in 1..Len(ms) |->
                       SpecAccel(st, ms, soft2, b - 1, Len(ms) - 1)]))

\* s + c * k
SpecAxpy(s, c, k) == AsSeq([x \in 1..Len(s) |-> FAdd(s[x], FMul(c, k[x]))])

\* s + (dt/6) * (k1 + 2*k2 + 2*k3 + k4)
SpecCombine(s, dt, k1, k2, k3, k4) ==
  AsSeq([x \in 1..Len(s) |->
           FAdd(s[x], FMul(FDiv(dt, Six),
                           FAdd(FAdd(FAdd(k1[x], FMul(Two, k2[x])),
                                     FMul(Two, k3[x])),
                                k4[x])))])

\* the classical Runge-Kutta step from s, every k from the s given
SpecRK4c(s, dt, ms, soft2, k1, k2, k3) ==
  SpecCombine(s, dt, k1, k2, k3, SpecDeriv(SpecAxpy(s, dt, k3), ms, soft2))

SpecRK4b(s, dt, ms, soft2, k1, k2) ==
  SpecRK4c(s, dt, ms, soft2, k1, k2,
           SpecDeriv(SpecAxpy(s, FMul(Half, dt), k2), ms, soft2))

SpecRK4a(s, dt, ms, soft2, k1) ==
  SpecRK4b(s, dt, ms, soft2, k1,
           SpecDeriv(SpecAxpy(s, FMul(Half, dt), k1), ms, soft2))

SpecRK4(s, dt, ms, soft2) ==
  SpecRK4a(s, dt, ms, soft2, SpecDeriv(s, ms, soft2))

\* 0.5 * mass_i * |vel_i|^2
SpecKinetic(st, ms, i) ==
  FMul(FMul(Half, Slot(ms, i)),
       FAdd(FAdd(FMul(Slot(st, 3 * Len(ms) + 3 * i),
                      Slot(st, 3 * Len(ms) + 3 * i)),
                 FMul(Slot(st, 3 * Len(ms) + 3 * i + 1),
                      Slot(st, 3 * Len(ms) + 3 * i + 1))),
            FMul(Slot(st, 3 * Len(ms) + 3 * i + 2),
                 Slot(st, 3 * Len(ms) + 3 * i + 2))))

\* the kinetic energy of the bodies 0 .. i
RECURSIVE SpecKineticSum(_, _, _)
SpecKineticSum(st, ms, i) ==
  IF i < 0 THEN Zero
  ELSE FAdd(SpecKineticSum(st, ms, i - 1), SpecKinetic(st, ms, i))

\* the unordered pairs of n bodies, each once, as <<i, j>> with i < j
SpecPairs(n) == {p \in (0..(n - 1)) \X (0..(n - 1)) : p[1] < p[2]}

\* p comes before q
PairBefore(p, q) == p[1] < q[1] \/ (p[1] = q[1] /\ p[2] < q[2])

\* the c-th pair, c = 1 .. n(n-1)/2
PairAt(n, c) ==
  CHOOSE p \in SpecPairs(n) :
    Cardinality({q \in SpecPairs(n) : PairBefore(q, p)}) = c - 1

\* -G * mass_i * mass_j / sqrt(|pos_i - pos_j|^2 + softening^2)
SpecPotential(st, ms, soft2, p) ==
  FDiv(FMul(FMul(FNeg(G), Slot(ms, p[1])), Slot(ms, p[2])),
       FSqrt(SpecR2(st, p[1], p[2], soft2)))

\* the potential energy of the first c pairs
RECURSIVE SpecPotentialSum(_, _, _, _)
SpecPotentialSum(st, ms, soft2, c) ==
  IF c = 0 THEN Zero
  ELSE FAdd(SpecPotentialSum(st, ms, soft2, c - 1),
            SpecPotential(st, ms, soft2, PairAt(Len(ms), c)))

SpecEnergy(st, ms, soft2) ==
  FAdd(SpecKineticSum(st, ms, Len(ms) - 1),
       SpecPotentialSum(st, ms, soft2, Cardinality(SpecPairs(Len(ms)))))

----------------------------------------------------------------------------
\* Claims

\* the three argument lengths agree
LengthsEqual(a) ==
  Len(a.pos) = Len(a.masses) /\ Len(a.vel) = Len(a.masses)

\* C1: a constructor call with masses, positions and velocities whose
\* lengths are not all equal fails, whether positions or velocities are
\* shorter or longer than masses, and leaves no engine to step.
C1_MismatchRejected ==
  (ret.op = "construct" /\ ~LengthsEqual(ret.args)) => ~ret.ok

\* C2: the state buffer of an engine built from N bodies has length 6N in
\* every reachable state, and right after construction slot 3i+a holds
\* positions[i][a] and slot 3N+3i+a holds velocities[i][a].
C2_StateLayout ==
  /\ engine.live =>
       /\ engine.n = Len(MassOf(heap, engine))
       /\ Len(StateOf(heap, engine)) = 6 * engine.n
  /\ (ret.op = "construct" /\ ret.ok) =>
       /\ engine.n = Len(ret.args.masses)
       /\ \A i \in 0..(engine.n - 1), a \in 0..2 :
            /\ Slot(StateOf(heap, engine), 3 * i + a)
                 = ret.args.pos[i + 1][a + 1]
            /\ Slot(StateOf(heap, engine), 3 * engine.n + 3 * i + a)
                 = ret.args.vel[i + 1][a + 1]

C2_Witness ==
  /\ ret.op = "construct" /\ ret.ok /\ engine.n = 3
  /\ Len(StateOf(heap, engine)) = 18

\* C3: deriv(out, s) writes the velocity block of s into out[0..3N-1] and
\* into out[3N+3i+a] the sum over every j # i of
\* -G * mass_j * r2^-1.5 * (pos_i - pos_j)[a], r2 = |pos_i - pos_j|^2 +
\* softening^2, and leaves s as it was.
C3_DerivContract ==
  ret.op = "deriv" =>
    /\ ret.out = SpecDeriv(ret.before, MassOf(heap, engine), engine.soft2)
    /\ StateOf(heap, engine) = ret.before

C3_Witness ==
  /\ ret.op = "deriv" /\ engine.n = 3 /\ steps > 0
  /\ \A k \in 10..18 : IsFinite(ret.out[k]) /\ ~IsZero(ret.out[k])

\* C4: step(dt) replaces the state s by s + (dt/6)(k1 + 2 k2 + 2 k3 + k4),
\* k1 = deriv(s), k2 = deriv(s + dt/2 k1), k3 = deriv(s + dt/2 k2),
\* k4 = deriv(s + dt k3), every one of them from s as it was before the call.
C4_StepIsRK4 ==
  ret.op = "step" =>
    StateOf(heap, engine)
      = SpecRK4(ret.before, ret.dt, MassOf(heap, engine), engine.soft2)

C4_Witness ==
  /\ ret.op = "step" /\ engine.n = 3 /\ steps = 2
  /\ \A i \in 0..2 :
       /\ \E a \in 0..2 : Slot(StateOf(heap, engine), 3 * i + a)
                             # Slot(ret.before, 3 * i + a)
       /\ \E a \in 0..2 : Slot(StateOf(heap, engine), 9 + 3 * i + a)
                             # Slot(ret.before, 9 + 3 * i + a)

\* the accelerations deriv wrote for the bodies 0 and 1 of a pair, axis a
PairAccel(b, a) == Slot(ret.out, 6 + 3 * b + a)

\* mass_0 * accel_0 + mass_1 * accel_1 on axis a
PairResidual(a) ==
  FAdd(FMul(Slot(MassOf(heap, engine), 0), PairAccel(0, a)),
       FMul(Slot(MassOf(heap, engine), 1), PairAccel(1, a)))

\* C6 as stated: for an isolated pair, mass_i * accel_i + mass_j * accel_j
\* is exactly 0 on every axis.
C6_ExactSymmetry ==
  (ret.op = "deriv" /\ engine.n = 2) =>
    \A a \in 0..2 : PairResidual(a) = Zero

\* C6: for an isolated pair the two accelerations are exact negations of
\* each other when the masses are equal; in general mass_i * accel_i +
\* mass_j * accel_j is zero up to the rounding of the four operations that
\* lead to each product, 2^(4 - Prec) of the product's size. Both hold
\* where the accelerations are finite: two bodies in one place with the
\* softening 0 get NaN accelerations, and NaN is no negation and sums to NaN.
C6_SymmetryUpToRounding ==
  (ret.op = "deriv" /\ engine.n = 2) =>
    \A a \in {b \in 0..2 : IsFinite(PairAccel(0, b)) /\ IsFinite(PairAccel(1, b))} :
      /\ Slot(MassOf(heap, engine), 0) = Slot(MassOf(heap, engine), 1)
           => PairAccel(0, a) = FNeg(PairAccel(1, a))
      /\ FLe(FAbs(PairResidual(a)),
             FMul(Fl(1, 4 - Prec),
                  FAbs(FMul(Slot(MassOf(heap, engine), 0), PairAccel(0, a)))))

C6_Witness ==
  /\ ret.op = "deriv" /\ engine.n = 2
  /\ Slot(MassOf(heap, engine), 0) # Slot(MassOf(heap, engine), 1)
  /\ \E a \in 0..2 : IsFinite(PairResidual(a)) /\ ~IsZero(PairResidual(a))

\* C8: energy() returns the sum over the bodies of 0.5 * mass_i * |vel_i|^2
\* plus the sum over each unordered pair i < j, once, of
\* -G * mass_i * mass_j / sqrt(|pos_i - pos_j|^2 + softening^2), of the
\* current state.
C8_EnergyFormula ==
  ret.op = "energy" =>
    ret.val = SpecEnergy(StateOf(heap, engine), MassOf(heap, engine),
                         engine.soft2)

C8_Witness ==
  /\ ret.op = "energy" /\ engine.n = 3 /\ steps > 0
  /\ IsFinite(ret.val) /\ ret.val.m < 0

\* the calls that are not step and build no engine
ReadingOps ==
  {"energy", "getPositions", "detectCollision", "detectEscape", "deriv",
   "write", "assign"}

\* C9: the state buffer changes only during step: energy, getPositions,
\* detectCollision in both modes, detectEscape, and every other call that is
\* not step, leave every slot of the state buffer and of the mass array as
\* it was.
C9_SingleWriter ==
  [][(engine.live /\ ret'.op \in ReadingOps) =>
       /\ StateOf(heap', engine') = StateOf(heap, engine)
       /\ MassOf(heap', engine') = MassOf(heap, engine)]_vars

C9_Witness ==
  /\ ret.op = "detectCollision" /\ ret.opts.mode = "vdt"
  /\ ret.res # Null /\ steps > 0

\* the positions in state buffer contents st, as 3-vectors
PositionsOf(st, n) ==
  [i \in 1..n |-> <<st[3 * i - 2], st[3 * i - 1], st[3 * i]>>]

\* C10: getPositions returns the positions in arrays of their own: a write
\* into the returned array or into one of its entries never changes the
\* engine state, and a later step never changes a snapshot returned before.
C10_SnapshotOwnsItsArrays ==
  [][/\ ret'.op = "getPositions" =>
          SnapVals(heap', snap') = PositionsOf(StateOf(heap, engine), engine.n)
     /\ (ret'.op \in {"write", "assign"} /\ engine.live) =>
          StateOf(heap', engine') = StateOf(heap, engine)
     /\ ret'.op = "step" => SnapVals(heap', snap') = SnapVals(heap, snap)]_vars

C10_Witness ==
  /\ ret.op = "step" /\ snap.writes > 0 /\ Len(snap.refs) = 3
  /\ \E i \in 1..3 :
       SnapVals(heap, snap)[i] # PositionsOf(ret.before, 3)[i]
       /\ SnapVals(heap, snap)[i] # PositionsOf(StateOf(heap, engine), 3)[i]

----------------------------------------------------------------------------
\* The detectors, on the engine state a call finds

\* centre separation of bodies i and j in state buffer st
SepOf(st, i, j) ==
  Hypot3(<<FSub(Slot(st, 3 * i), Slot(st, 3 * j)),
           FSub(Slot(st, 3 * i + 1), Slot(st, 3 * j + 1)),
           FSub(Slot(st, 3 * i + 2), Slot(st, 3 * j + 2))>>)

\* speed of body i
SpeedOf(st, n, i) ==
  Hypot3(<<Slot(st, 3 * n + 3 * i), Slot(st, 3 * n + 3 * i + 1),
           Slot(st, 3 * n + 3 * i + 2)>>)

\* radius of body i under the options of the call
SpecRadius(st, masses, opts, i) ==
  IF opts.mode = "vdt"
  THEN FMul(FMul(SpeedOf(st, Len(masses), i),
                 IF IsFinite(opts.dt) THEN opts.dt ELSE Zero),
            IF IsFinite(opts.fudge) THEN opts.fudge ELSE Fl(1229, -10))
  ELSE FMul(PhysicalRadiusAU(masses[i + 1]),
            IF IsFinite(opts.fudge) THEN opts.fudge ELSE Fl(1229, -10))

SpecMinSep(st, masses, opts, i, j) ==
  FAdd(SpecRadius(st, masses, opts, i), SpecRadius(st, masses, opts, j))

\* the unordered pairs in reach of each other, as <<i, j>> with i < j
Colliding(st, masses, opts) ==
  {p \in (0..(Len(masses) - 1)) \X (0..(Len(masses) - 1)) :
     /\ p[1] < p[2]
     /\ FLt(SepOf(st, p[1], p[2]), SpecMinSep(st, masses, opts, p[1], p[2]))}

\* index order: lowest i, then lowest j
PairBeforeOrAt(p, q) == p[1] < q[1] \/ (p[1] = q[1] /\ p[2] <= q[2])

IsFirstOf(p, S) == p \in S /\ \A q \in S : PairBeforeOrAt(p, q)

CollisionSeen(st, masses, opts, res) ==
  IF Colliding(st, masses, opts) = {} THEN res = Null
  ELSE /\ res # Null
       /\ res.i < res.j
       /\ IsFirstOf(<<res.i, res.j>>, Colliding(st, masses, opts))

\* C12: detectCollision returns the first pair in index order (lowest i,
\* then lowest j > i) whose centre separation is less than the sum of the
\* two radii, and null exactly when no pair is that close.
C12_FirstPairInIndexOrder ==
  ret.op = "detectCollision"
    => CollisionSeen(ret.before, MassOf(heap, engine), ret.opts, ret.res)

\* a call that found several pairs in reach
C12_Witness ==
  /\ ret.op = "detectCollision"
  /\ ret.res # Null
  /\ Cardinality(Colliding(ret.before, MassOf(heap, engine), ret.opts)) >= 2

\* the fudge and the step a call of detectCollision works with
FudgeUsed(opts) == IF opts.fudge.k = "fin" THEN opts.fudge ELSE Fl(1229, -10)
DtUsed(opts) == IF opts.dt.k = "fin" THEN opts.dt ELSE Zero

\* sum of the mass-derived radii of bodies i and j, each scaled by fudge
CoreSum(masses, fudge, i, j) ==
  FAdd(FMul(PhysicalRadiusAU(masses[i + 1]), fudge),
       FMul(PhysicalRadiusAU(masses[j + 1]), fudge))

\* the pairs <<i, j>>, i < j, of n bodies
PairsOf(n) == {p \in (0..(n - 1)) \X (0..(n - 1)) : p[1] < p[2]}

CoreVerdict(st, masses, fudge, res) ==
  \A p \in PairsOf(Len(masses)) :
    /\ FLt(SepOf(st, p[1], p[2]), CoreSum(masses, fudge, p[1], p[2]))
         => res # Null
    /\ SepOf(st, p[1], p[2]) = CoreSum(masses, fudge, p[1], p[2])
         => (res = Null \/ <<res.i, res.j>> # p)

\* C13: in 'core' mode two bodies closer than the sum of their mass-derived
\* radii times fudge are reported as colliding, and two bodies exactly that
\* far apart are not: the comparison is strict.
C13_CoreStrictlyLess ==
  (ret.op = "detectCollision" /\ ret.opts.mode = "core")
    => CoreVerdict(ret.before, MassOf(heap, engine), FudgeUsed(ret.opts),
                   ret.res)

\* two bodies exactly as far apart as their radii reach, and no collision
C13_Witness ==
  /\ ret.op = "detectCollision" /\ ret.opts.mode = "core"
  /\ engine.n = 2
  /\ SepOf(ret.before, 0, 1)
       = CoreSum(MassOf(heap, engine), ret.opts.fudge, 0, 1)
  /\ ret.res = Null

\* one term of the sums over the bodies other than k: the mass of body i
\* (a = 0), or its mass times coordinate a (a = 1, 2, 3)
OtherTerm(st, masses, i, a) ==
  IF a = 0 THEN masses[i + 1]
  ELSE FMul(masses[i + 1], Slot(st, 3 * i + a - 1))

\* the sum over the bodies below i other than k, in index order
RECURSIVE SumOthers(_, _, _, _, _)
SumOthers(st, masses, k, a, i) ==
  IF i = 0 THEN Zero
  ELSE IF i - 1 = k THEN SumOthers(st, masses, k, a, i - 1)
  ELSE FAdd(SumOthers(st, masses, k, a, i - 1),
            OtherTerm(st, masses, i - 1, a))

MassOther(st, masses, k) == SumOthers(st, masses, k, 0, Len(masses))

\* coordinate a of the mass-weighted centre of the bodies other than k
CentreOther(st, masses, k, a) ==
  FDiv(SumOthers(st, masses, k, a, Len(masses)), MassOther(st, masses, k))

\* distance of body k from that centre
SpecRCM(st, masses, k) ==
  Hypot3(<<FSub(Slot(st, 3 * k), CentreOther(st, masses, k, 1)),
           FSub(Slot(st, 3 * k + 1), CentreOther(st, masses, k, 2)),
           FSub(Slot(st, 3 * k + 2), CentreOther(st, masses, k, 3))>>)

\* sqrt(2 * G * massOther / rCM) * fudge
SpecEscapeSpeed(M, rCM, fudge) ==
  FMul(FSqrt(FDiv(FMul(FMul(Two, G_AU3_MSUN_DAY2), M), rCM)), fudge)

\* the bodies far enough from the others and fast enough to leave them
Qualifying(st, masses, o) ==
  {k \in 0..(Len(masses) - 1) :
     /\ FGe(SpecRCM(st, masses, k), o.maxSepAU)
     /\ FGe(SpeedOf(st, Len(masses), k),
            SpecEscapeSpeed(MassOther(st, masses, k), SpecRCM(st, masses, k),
                            o.fudge))}

EscapeSeen(st, masses, o, res) ==
  IF Qualifying(st, masses, o) = {} THEN res = Null
  ELSE /\ res # Null
       /\ res.index \in Qualifying(st, masses, o)
       /\ \A k \in Qualifying(st, masses, o) : res.index <= k
       /\ res.rCM = SpecRCM(st, masses, res.index)
       /\ ~FLt(res.rCM, o.maxSepAU)

\* C14: detectEscape returns the lowest-index body whose distance rCM from
\* the mass-weighted centre of all other bodies is at least maxSepAU and
\* whose speed is at least sqrt(2*G*massOther/rCM)*fudge; it never returns a
\* body with rCM < maxSepAU, and returns null exactly when no body qualifies.
C14_LowestEscapingBody ==
  ret.op = "detectEscape"
    => EscapeSeen(ret.before, MassOf(heap, engine), ret.opts, ret.res)

\* a call that passed over the first body and returned a later one
C14_Witness ==
  /\ ret.op = "detectEscape"
  /\ ret.res # Null
  /\ ret.res.index > 0

\* a result of detectCollision: null, or a pair with its two distances
IsCollisionResult(res, n) ==
  \/ res = Null
  \/ /\ res.tag = "pair"
     /\ res.i \in 0..(n - 1) /\ res.j \in 0..(n - 1)
     /\ ~IsNaN(res.sep) /\ ~IsNaN(res.minSep)

\* a result of detectEscape: null, or a body with its speeds and distance
IsEscapeResult(res, n) ==
  \/ res = Null
  \/ /\ res.tag = "escape"
     /\ res.index \in 0..(n - 1)
     /\ ~IsNaN(res.v) /\ ~IsNaN(res.vEsc) /\ ~IsNaN(res.rCM)

\* C15: collisions and escapes are surfaced only as optional result values:
\* whatever the state and the options, detectCollision and detectEscape
\* return null or a result record, and never throw.
C15_DetectorsReturnValues ==
  /\ ret.op = "detectCollision" => IsCollisionResult(ret.res, engine.n)
  /\ ret.op = "detectEscape" => IsEscapeResult(ret.res, engine.n)

\* a collision found with the option dt left out, returned as a record
C15_Witness ==
  /\ ret.op = "detectCollision"
  /\ ~IsFinite(ret.opts.dt)
  /\ ret.res # Null /\ ret.res.tag = "pair"

----------------------------------------------------------------------------
\* The driver loop: claims checked under AppSpec

\* the engine's softening, squared as the constructor stores it
Soft2Of(p) == FMul(p.softening, p.softening)

\* C11: an engine's masses and softening are fixed for its lifetime.  A
\* step in which the masses or the softening of the driver's engine differ
\* from before is a rebuild: the engine is a new one, built from the params
\* of that moment, with nothing seen yet.  So no frame (its steps and
\* detector calls) and no edit of params changes them.
C11_MassesAndSofteningFixed ==
  [][(engine.live
      /\ (MassOf(heap', engine') # MassOf(heap, engine)
          \/ engine'.soft2 # engine.soft2))
     => (/\ seen' = NothingSeen(engine'.n)
         /\ steps' = 0
         /\ MassOf(heap', engine') = params'.masses
         /\ engine'.soft2 = Soft2Of(params'))]_vars

\* a frame has run after an edit of params that the engine does not follow
C11_Witness ==
  /\ ret.op = "frame" /\ ret.edits = 1
  /\ seen.frames >= 1
  /\ (params.masses # MassOf(heap, engine)
      \/ Soft2Of(params) # engine.soft2)

\* a step of the behaviour in which a frame ran its sub-steps
FrameRan == seen'.frames = seen.frames + 1

\* body k (counted from 1) is the candidate detectEscape returned
IsCandidate(res, k) == res # Null /\ res.index + 1 = k

\* the debounce rule for one counter
CounterAfter(c, hit) ==
  IF hit
  THEN (IF (IF c > 0 THEN c - 1 ELSE 0) + 2 > ConsecutiveThreshold
        THEN ConsecutiveThreshold ELSE (IF c > 0 THEN c - 1 ELSE 0) + 2)
  ELSE (IF c > 0 THEN c - 1 ELSE 0)

Anomaly(r, c) ==
  \/ r.collision # Null
  \/ \E k \in DOMAIN c : IsCandidate(r.escape, k) /\ c[k] >= ConsecutiveThreshold

RECURSIVE StepsFrom(_, _, _, _, _)
StepsFrom(s, dt, ms, soft2, i) ==
  IF i = 0 THEN s
  ELSE StepsFrom(SpecRK4(s, dt, ms, soft2), dt, ms, soft2, i - 1)

\* the step size of a frame that took delta seconds
QuarterOf(delta, timeScale) == FDiv(FMul(delta, timeScale), Fl(4, 0))

\* what one frame of delta seconds left behind, by the record of the frame
FrameDid(r, delta, ms, soft2) ==
  /\ r.after = StepsFrom(r.before, QuarterOf(delta, r.timeScale), ms, soft2, 4)
  /\ simTimeDays
       = FAdd(r.time,
              FAdd(FAdd(FAdd(FAdd(Zero, QuarterOf(delta, r.timeScale)),
                             QuarterOf(delta, r.timeScale)),
                        QuarterOf(delta, r.timeScale)),
                   QuarterOf(delta, r.timeScale)))

\* the state a running frame leaves, before any later handler has touched
\* the pause flag or the settings
FrameJustRan ==
  /\ ret.op = "frame"
  /\ seen.edits = ret.edits
  /\ paused = Halt(ret.collision, ret.final)

SkippedFrame ==
  /\ StateOf(heap', engine') = StateOf(heap, engine)
  /\ simTimeDays' = simTimeDays
  /\ steps' = steps
  /\ paused'
  /\ drawn'
  /\ raf' >= 1

\* C22: while the pause flag is set, a frame callback performs no
\* integration: it can run, and when it runs it leaves the engine state and
\* the simulated time as they were, renders, and has the next frame
\* requested.
C22_PausedFrameOnlyRenders ==
  (paused /\ engine.live)
    => \A delta \in Deltas :
         /\ ENABLED frame(delta)
         /\ ~ENABLED (frame(delta) /\ ~SkippedFrame)

\* the engine was reset while paused, and a frame has drawn the new scene
C22_Witness ==
  /\ paused /\ drawn
  /\ ret.op = "rebuild" /\ ret.ok
  /\ seen.frames = 0
  /\ raf = 1

\* everything a handler can change, the pause flag apart
Unpaused == <<heap, engine, snap, ret, steps, params, escape, seen,
              simTimeDays, drawn, raf, fields, trails>>

\* a step of Reset: rebuildEngine has run and left a new engine
ResetStep ==
  /\ ret'.op = "rebuild" /\ ret'.ok
  /\ seen' = NothingSeen(engine'.n)
  /\ simTimeDays' = Zero /\ ~drawn'
  /\ Unpaused' # Unpaused

\* a step of applyPreset with a known key
PresetStep ==
  /\ ret'.op = "preset" /\ ret'.ok
  /\ seen' = NothingSeen(engine'.n)
  /\ simTimeDays' = Zero /\ ~drawn'

\* a step of the pause toggle
ToggleStep == paused' = ~paused /\ Unpaused' = Unpaused

\* C23: once set, the pause flag is cleared only by a manual action: a
\* reset, a resume by the pause toggle, or applying a preset.  No frame
\* callback clears it, and a reset does clear it.
C23_PauseClearedByHand ==
  [][/\ (paused /\ ~paused') => (ResetStep \/ PresetStep \/ ToggleStep)
     /\ ResetStep => ~paused']_vars


\* the masses physicalRadiusAU does not accept: not finite, or not positive
InvalidMasses == {NaN, PInf, NInf, Zero, Fl(-1, 0), Fl(-1, -30)}

IsInvalidMass(m) == ~IsFinite(m) \/ FLe(m, Zero)

\* the smallest radius the mapping produces, that of a body lighter than
\* Earth
TinyBodyFloor == FMul(R_EARTH_AU, Half)

\* the sum detectCollision compares the separation with in 'core' mode,
\* each body without a valid mass given the radius r
CoreSumWith(r, masses, opts, i, j) ==
  LET fudge == IF IsFinite(opts.fudge) THEN opts.fudge ELSE Fl(1229, -10)
      rad(b) == IF IsInvalidMass(masses[b + 1]) THEN r
                ELSE RadiusOf(masses[b + 1])
  IN FAdd(FMul(rad(i), fudge), FMul(rad(j), fudge))

\* physicalRadiusAU returns r for every mass that is not valid, also where
\* detectCollision calls it, and the engine keeps the masses it was given
InvalidMassRadius(r) ==
  /\ \A m \in InvalidMasses : PhysicalRadiusAU(m) = r
  /\ (ret.op = "detectCollision" /\ ret.opts.mode = "core" /\ ret.res # Null)
       => ret.res.minSep = CoreSumWith(r, MassOf(heap, engine), ret.opts,
                                       ret.res.i, ret.res.j)
  /\ (ret.op = "construct" /\ ret.ok) => MassOf(heap, engine) = ret.args.masses

\* C24 as stated: for a mass that is not finite or not positive
\* physicalRadiusAU returns the smallest radius of the mapping, the
\* tiny-body floor, and the integrator keeps the masses as given.
C24_InvalidMassGivesFloor == InvalidMassRadius(TinyBodyFloor)

\* C24: for a mass that is not finite or not positive physicalRadiusAU
\* returns the radius of an Earth-mass body, R_EARTH_AU, twice the
\* tiny-body floor; the integrator applies no coercion and keeps the masses
\* it was constructed with, valid or not.
C24_InvalidMassGivesEarthRadius ==
  /\ InvalidMassRadius(R_EARTH_AU)
  /\ R_EARTH_AU = FMul(Fl(2, 0), TinyBodyFloor)

\* a collision found between two bodies of mass 0 and -1, which the engine
\* holds as 0 and -1
C24_Witness ==
  /\ ret.op = "detectCollision" /\ ret.opts.mode = "core" /\ ret.res # Null
  /\ MassOf(heap, engine) = <<Zero, Fl(-1, 0)>>
  /\ ret.res.minSep = FAdd(FMul(R_EARTH_AU, ret.opts.fudge),
                           FMul(R_EARTH_AU, ret.opts.fudge))


\* every number of a sequence is finite
AllFinite(s) == \A k \in DOMAIN s : IsFinite(s[k])

\* C26: deriv writes finite accelerations for finite masses, positions and
\* velocities, also when two bodies are in the same place or nearly so,
\* whatever softening the engine was constructed with.
C26_DerivFinite ==
  (/\ ret.op = "deriv"
   /\ AllFinite(MassOf(heap, engine))
   /\ AllFinite(ret.before))
    => AllFinite(ret.out)


\* the radii of a call are those of the claimed formulas: speed * dt * fudge
\* in 'vdt' mode, mass-derived radius * fudge otherwise, with 1.2 for a
\* fudge that is not finite and 0 for a dt that is not
RadiiAsClaimed ==
  \A i \in 0..(engine.n - 1) :
    ret.r[i + 1]
      = IF ret.opts.mode = "vdt"
        THEN FMul(FMul(SpeedOf(ret.before, engine.n, i), DtUsed(ret.opts)),
                  FudgeUsed(ret.opts))
        ELSE FMul(PhysicalRadiusAU(MassOf(heap, engine)[i + 1]),
                  FudgeUsed(ret.opts))

\* a 'vdt' call without a finite dt
VdtWithoutDt ==
  ret.op = "detectCollision" /\ ret.opts.mode = "vdt" /\ ret.opts.dt.k # "fin"

C27_WitnessNaN ==
  /\ VdtWithoutDt
  /\ \E i \in 1..engine.n : IsNaN(ret.r[i])

\* a call whose fudge is not finite finds a collision with radii scaled by
\* 1.2
C27_WitnessFudge ==
  /\ ret.op = "detectCollision" /\ ret.opts.fudge.k # "fin"
  /\ ret.res # Null
  /\ \A i \in 1..engine.n : IsFinite(ret.r[i]) /\ ~IsZero(ret.r[i])


\* C29: applyPreset with a key that PRESETS does not have changes nothing:
\* the call returns, and params, the engine and its state, the simulated
\* time, the pause flag and everything else are as they were; no engine is
\* built.
C29_UnknownPresetIgnored ==
  \A key \in UnknownKeys :
    /\ ENABLED applyPreset(key)
    /\ ~ENABLED <<applyPreset(key)>>_vars

\* a paused simulation, some frames in, its parameters edited: all of which
\* a preset would replace
C29_Witness ==
  /\ paused /\ seen.frames >= 2 /\ seen.edits > 0
  /\ simTimeDays # Zero
  /\ params # WithPreset(DefaultParams, PRESETS["tristarPlanet"])


\* the points a trail holds
PointsOf(points) == Len(points) \div 3

\* C28: after updateTrail each body's trail holds at most params.trailLen
\* points, also after the trail length was lowered below the length the
\* trail had.
C28_TrailWithinBound ==
  [][FrameRan =>
       \A i \in DOMAIN trails' : PointsOf(trails'[i]) <= params.trailLen]_vars

\* once update calls have begun with a bound, the trail is within it from
\* the second call on
C28_TrailWithinBoundLater ==
  [][(FrameRan /\ ret.op = "frame"
        /\ ret.trailLen = params.trailLen) =>
       \A i \in DOMAIN trails' : PointsOf(trails'[i]) <= params.trailLen]_vars

\* an update call never makes a trail shorter
C28_TrailNeverShrinks ==
  [][FrameRan =>
       \A i \in DOMAIN trails' : Len(trails'[i]) >= Len(trails[i])]_vars


\* applyPreset has just run to its end: nothing was edited, paused or
\* integrated since
JustApplied ==
  ret.op = "preset" /\ ret.ok /\ seen.edits = 0 /\ seen.frames = 0 /\ ~paused

\* the fields read as the numbers of the preset p
FieldsHold(p) ==
  /\ Len(fields.masses) = Len(p.masses)
  /\ \A i \in DOMAIN p.masses :
       /\ ParseFloat(fields.masses[i]) = p.masses[i]
       /\ \A a \in 1..3 :
            /\ ParseFloat(fields.pos[i][a]) = p.pos[i][a]
            /\ ParseFloat(fields.vel[i][a]) = p.vel[i][a]

\* the engine is one built from the preset p, and no step was made on it
EngineHolds(p) ==
  /\ engine.live /\ engine.n = Len(p.masses)
  /\ MassOf(heap, engine) = p.masses
  /\ Len(StateOf(heap, engine)) = 6 * engine.n
  /\ \A i \in 0..(engine.n - 1), a \in 0..2 :
       /\ Slot(StateOf(heap, engine), 3 * i + a) = p.pos[i + 1][a + 1]
       /\ Slot(StateOf(heap, engine), 3 * engine.n + 3 * i + a)
            = p.vel[i + 1][a + 1]
  /\ steps = 0

\* C25: after applyPreset(key) with a key of PRESETS the input fields read
\* as the preset's masses, positions and velocities, params and the new
\* engine's state buffer hold exactly those numbers, the simulated time is 0
\* and nothing is left of the engine before: no step, no frame, no trail
\* but the starting points, no array of the old engine.
C25_PresetReplacesAll ==
  JustApplied =>
    /\ ret.key \in DOMAIN PRESETS
    /\ FieldsHold(PRESETS[ret.key])
    /\ params.masses = PRESETS[ret.key].masses
    /\ params.pos = PRESETS[ret.key].pos
    /\ params.vel = PRESETS[ret.key].vel
    /\ EngineHolds(PRESETS[ret.key])
    /\ simTimeDays = Zero
    /\ trails = PRESETS[ret.key].pos
    /\ snap = NoSnap
    /\ DOMAIN heap = {engine.state, engine.m}

\* a preset applied over a simulation whose escape counters were running,
\* one of its numbers written with three digits
C25_Witness ==
  /\ JustApplied /\ ret.had
  /\ \E i \in DOMAIN fields.masses : fields.masses[i].d >= 100

====
